---------------------------- MODULE Spec2Model ----------------------------
(***************************************************************************)
(* ShortsGen: the word-timing estimator (utils/subtitleSync) and the       *)
(* WebCodecs export pipeline (utils/videoExporter).                        *)
(*                                                                         *)
(* JavaScript numbers are modelled as exact rationals [n, d] in lowest     *)
(* terms: every product, quotient and sum of the code is computed as the   *)
(* code computes it, without the rounding of IEEE doubles.                 *)
(***************************************************************************)
EXTENDS Integers, Sequences, FiniteSets, TLC

VARIABLES
    \* generateWordTimings(text, duration)
    text, duration, timings, wtpc,
    \* exportVideo(scenes, showSubtitles, onProgress): arguments and environment
    scenes, hasVideoEncoder,
    \* exportVideo: position and locals
    pc, imgState, i, f, audioBuffer, globalTimestamp, totalDurationSec,
    \* the two encoders: what encode() was called with, and the chunks not yet
    \* handed to the output callback
    videoLog, audioLog, videoQueue, audioQueue,
    \* the state attribute of each encoder: "none" before it is constructed,
    \* "configured", or "closed" once it reported an error
    videoState, audioState,
    \* the canvas and the muxer exportVideo has created so far
    created,
    \* the muxer: the timestamps of the chunks added to each of its two tracks,
    \* in the order of addVideoChunk / addAudioChunk, and the calls of finalize
    muxVideo, muxAudio, finalizeCount,
    \* the values passed to onProgress, and the promise exportVideo returned
    progressLog, result,
    \* what the promise was rejected with
    rejectedWith,
    \* App.handleGenerate(script, ...): the argument, the application state,
    \* the position, the loop index, the scenes built so far, the duration of
    \* the audio of the scene under way, what the returned promise threw, and
    \* the scenes for which generatePreciseTimings rejected
    script, appState, gpc, gi, processedScenes, genAudio, genError, alignFailed,
    \* two calls of generateWordTimings on texts that differ in one word: the
    \* text with the punctuated word, the other text, the position of the
    \* word, the duration and the two results
    pairText, pairOther, pairIndex, pairDuration, pairTimings,
    pairOtherTimings, ppc,
    \* drawSubtitle(ctx, timings, currentTime) called again and again on one
    \* context: the timings, the pixel size of ctx.font, the latest call and
    \* one earlier call kept for comparison
    subTimings, ctxFont, lastCall, refCall, spc,
    \* two invocations of exportVideo under way at once: for each its scenes,
    \* its position, its loop locals and the canvas, muxer and encoders it
    \* holds; the cells that hold a globalTimestamp; the objects created so
    \* far; what each video and audio encoder was given; and the invocation
    \* that holds the thread
    xScenes, xpc, xLocal, xTimestamp, xObjects, xNextObject, xVideoLog,
    xAudioLog, running,
    \* a script on its way to handleGenerate: the path it takes, the value
    \* submitted, whether a valid API key comes with it, the position on the
    \* path and what handleGenerate was called with
    entryPath, entryInput, hasApiKey, epc, reached,
    \* server.js: the job store, the files in the video storage directory,
    \* the jobs created so far and the latest response of GET /api/status/:id
    jobs, files, nextJob, lastStatus,
    \* exportVideo, the images: the scenes, the state of each image load, the
    \* loads in the order they completed, the array Promise.all resolved with,
    \* the position, the loop indices and frame count, and what was drawn and
    \* submitted
    imScenes, imLoad, imSettled, images, impc, imI, imF, imFrames, imLog,
    \* drawImage(ctx, img, transition, progress) called for the frames of one
    \* scene: the transition of the scene, the latest call and one earlier call
    \* kept for comparison
    drTransition, lastDraw, refDraw,
    \* resampleTo48k(audioBuffer): the argument, the buffer the returned
    \* promise resolved with, and the position
    rsInput, rsOutput, rspc,
    \* exportVideo called on one scene list with showSubtitles true and with
    \* showSubtitles false: the scenes, and for each of the two calls its
    \* position, loop locals and what it submitted, reported and drew
    shScenes, shRun,
    \* window.startHeadlessJob and the server's wait for it: the position of
    \* the job, the two globals of the page it reports through, the exporting
    \* flag, what the job returned, and the state of page.waitForFunction
    hjpc, RENDERED_VIDEO_DATA, JOB_ERROR, isExporting, hjReturn,
    waitForFunction

wtVars == <<text, duration, timings, wtpc>>
inVars == <<scenes, hasVideoEncoder>>
loopVars == <<i, f, audioBuffer, globalTimestamp, totalDurationSec>>
encVars == <<videoLog, audioLog, videoQueue, audioQueue, videoState, audioState>>
muxVars == <<muxVideo, muxAudio, finalizeCount>>
exVars == <<scenes, hasVideoEncoder, pc, imgState, i, f, audioBuffer,
            globalTimestamp, totalDurationSec, videoLog, audioLog, videoQueue,
            audioQueue, videoState, audioState, created, muxVideo, muxAudio,
            finalizeCount, progressLog, result, rejectedWith>>
genVars == <<script, appState, gpc, gi, processedScenes, genAudio, genError,
             alignFailed>>
pairVars == <<pairText, pairOther, pairIndex, pairDuration, pairTimings,
    pairOtherTimings, ppc>>
subVars == <<subTimings, ctxFont, lastCall, refCall, spc>>
xVars == <<xScenes, xpc, xLocal, xTimestamp, xObjects, xNextObject,
    xVideoLog, xAudioLog, running>>
entryVars == <<entryPath, entryInput, hasApiKey, epc, reached>>
jobVars == <<jobs, files, nextJob, lastStatus>>
imVars == <<imScenes, imLoad, imSettled, images, impc, imI, imF, imFrames,
    imLog>>
drVars == <<drTransition, lastDraw, refDraw>>
rsVars == <<rsInput, rsOutput, rspc>>
shVars == <<shScenes, shRun>>
hjVars == <<hjpc, RENDERED_VIDEO_DATA, JOB_ERROR, isExporting, hjReturn,
    waitForFunction>>
\* the variables of everything but one part of the program
nonWtVars == <<exVars, genVars, pairVars, subVars, xVars, entryVars, jobVars, imVars, drVars, rsVars, shVars, hjVars>>
nonExVars == <<wtVars, genVars, pairVars, subVars, xVars, entryVars, jobVars, imVars, drVars, rsVars, shVars, hjVars>>
nonGenVars == <<wtVars, exVars, pairVars, subVars, xVars, entryVars, jobVars, imVars, drVars, rsVars, shVars, hjVars>>
nonPairVars == <<wtVars, exVars, genVars, subVars, xVars, entryVars, jobVars, imVars, drVars, rsVars, shVars, hjVars>>
nonSubVars == <<wtVars, exVars, genVars, pairVars, xVars, entryVars, jobVars, imVars, drVars, rsVars, shVars, hjVars>>
nonXVars == <<wtVars, exVars, genVars, subVars, pairVars, entryVars, jobVars, imVars, drVars, rsVars, shVars, hjVars>>
nonEntryVars == <<wtVars, exVars, genVars, xVars, subVars, pairVars, jobVars, imVars, drVars, rsVars, shVars, hjVars>>
nonJobVars == <<wtVars, exVars, genVars, xVars, entryVars, pairVars, subVars, imVars, drVars, rsVars, shVars, hjVars>>
nonImVars == <<wtVars, exVars, genVars, entryVars, subVars, jobVars, xVars, pairVars, drVars, rsVars, shVars, hjVars>>
nonDrVars == <<wtVars, exVars, genVars, jobVars, xVars, subVars, pairVars, entryVars, imVars, rsVars, shVars, hjVars>>
nonRsVars == <<wtVars, exVars, genVars, imVars, entryVars, jobVars, pairVars, xVars, drVars, subVars, shVars, hjVars>>
nonShVars == <<wtVars, exVars, genVars, drVars, imVars, jobVars, pairVars, xVars, subVars, rsVars, entryVars, hjVars>>
nonHjVars == <<wtVars, exVars, genVars, shVars, jobVars, pairVars, subVars, drVars, rsVars, xVars, entryVars, imVars>>
vars == <<text, duration, timings, wtpc, scenes, hasVideoEncoder, pc, imgState,
          i, f, audioBuffer, globalTimestamp, totalDurationSec, videoLog,
          audioLog, videoQueue, audioQueue, videoState, audioState, created,
          muxVideo, muxAudio, finalizeCount, progressLog, result, rejectedWith,
          script, appState, gpc, gi, processedScenes, genAudio, genError,
          alignFailed,
          pairText, pairOther, pairIndex, pairDuration, pairTimings,
          pairOtherTimings, ppc,
          subTimings, ctxFont, lastCall, refCall, spc,
          xScenes, xpc, xLocal, xTimestamp, xObjects, xNextObject,
          xVideoLog, xAudioLog, running,
          entryPath, entryInput, hasApiKey, epc, reached,
          jobs, files, nextJob, lastStatus,
          imScenes, imLoad, imSettled, images, impc, imI, imF, imFrames,
          imLog,
          drTransition, lastDraw, refDraw,
          rsInput, rsOutput, rspc,
          shScenes, shRun,
          hjpc, RENDERED_VIDEO_DATA, JOB_ERROR, isExporting, hjReturn,
          waitForFunction>>

---------------------------------------------------------------------------
(* Exact rational arithmetic                                               *)

\* The operators of this section bind their arguments to values with a
\* bounded quantifier before using them, so that each argument is evaluated
\* once however often its value is used.
RECURSIVE GCD(_, _)
GCD(a, b) == IF b = 0 THEN a ELSE GCD(b, CHOOSE r \in {a % b} : TRUE)

Abs(x) == IF x < 0 THEN -x ELSE x

Max(a, b) == IF a >= b THEN a ELSE b

\* n/d in lowest terms, d > 0
Rat(n, d) ==
    CHOOSE r \in {[n |-> s * (x \div g), d |-> s * (y \div g)] :
                      <<x, y, g, s>> \in
                          {<<p, q, GCD(Abs(p), Abs(q)), IF q < 0 THEN -1 ELSE 1>> :
                              <<p, q>> \in {<<n, d>>}}} : TRUE

RInt(k) == [n |-> k, d |-> 1]

RAdd(a, b) ==
    CHOOSE r \in {Rat(x.n * (l \div x.d) + y.n * (l \div y.d), l) :
                      <<x, y, l>> \in
                          {<<p, q, (p.d \div GCD(p.d, q.d)) * q.d>> :
                              <<p, q>> \in {<<a, b>>}}} : TRUE

RMul(a, b) ==
    CHOOSE r \in {Rat((x.n \div h1) * (y.n \div h2),
                      (x.d \div h2) * (y.d \div h1)) :
                      <<x, y, h1, h2>> \in
                          {<<p, q, Max(1, GCD(Abs(p.n), q.d)),
                                   Max(1, GCD(Abs(q.n), p.d))>> :
                              <<p, q>> \in {<<a, b>>}}} : TRUE

\* a / b, b # 0
RDiv(a, b) == CHOOSE r \in {RMul(a, Rat(y.d, y.n)) : y \in {b}} : TRUE

RLe(a, b) ==
    \E <<x, y, g>> \in {<<p, q, GCD(p.d, q.d)>> : <<p, q>> \in {<<a, b>>}} :
        x.n * (y.d \div g) <= y.n * (x.d \div g)

RLt(a, b) == \E <<x, y>> \in {<<a, b>>} : RLe(x, y) /\ x # y

\* Math.ceil
RCeil(a) ==
    CHOOSE k \in {IF x.n % x.d = 0 THEN x.n \div x.d ELSE (x.n \div x.d) + 1 :
                      x \in {a}} : TRUE

---------------------------------------------------------------------------
(* Bounds of the model                                                     *)

\* longest narration text, in characters
MaxLen == 4

\* largest audio duration handed to generateWordTimings, in seconds
MaxDuration == 2

\* longest scene list handed to exportVideo
MaxScenes == 3

---------------------------------------------------------------------------
(* Program constants                                                       *)

FPS == 30

TargetRate == 48000

UsPerSec == 1000000

YieldEvery == 15

KeyFrameEvery == 60

\* scene.audioBuffer === null
NoAudio == [sampleRate |-> 0, length |-> 0]

---------------------------------------------------------------------------
(* utils/subtitleSync: generateWordTimings                                 *)

\* a letter, a digit, the two punctuation classes, whitespace
Alphabet == {"a", "1", ".", ",", " "}

IsSpace(c) == c = " "

RECURSIVE TrimLeft(_)
TrimLeft(s) ==
    IF s # <<>> /\ IsSpace(Head(s)) THEN TrimLeft(Tail(s)) ELSE s

RECURSIVE TrimRight(_)
TrimRight(s) ==
    IF s # <<>> /\ IsSpace(s[Len(s)])
        THEN TrimRight(SubSeq(s, 1, Len(s) - 1))
        ELSE s

\* String.prototype.trim
Trim(s) == TrimRight(TrimLeft(s))

\* String.prototype.split(/\s+/): the pieces between the maximal runs of
\* whitespace; a string without whitespace, the empty one included, is one piece
RECURSIVE SplitWs(_)
SplitWs(s) ==
    IF \A k \in 1..Len(s) : ~IsSpace(s[k])
        THEN <<s>>
        ELSE LET k == CHOOSE x \in 1..Len(s) :
                        IsSpace(s[x]) /\ \A y \in 1..(x - 1) : ~IsSpace(s[y])
                 rest == SubSeq(s, k, Len(s))
             IN  <<SubSeq(s, 1, k - 1)>> \o SplitWs(TrimLeft(rest))

EndsWith(word, c) == word # <<>> /\ word[Len(word)] = c

HasDigit(word) == \E k \in 1..Len(word) : word[k] = "1"

\* the strong pause of a closing period is not counted
Weight_NoStrongPause(word) ==
    LET isNumber == HasDigit(word)
        w1 == Len(word) + (IF isNumber THEN 2 ELSE 0)
        w2 == IF EndsWith(word, ",") \/ EndsWith(word, ":")
                     \/ EndsWith(word, ";")
                  THEN w1 + 3
                  ELSE w1
    IN  Max(1, w2)

\* a digit in the word adds nothing
Weight_DigitIgnored(word) ==
    LET w1 == Len(word)
        w2 == IF EndsWith(word, ".") \/ EndsWith(word, "!") \/ EndsWith(word, "?")
                  THEN w1 + 6
                  ELSE IF EndsWith(word, ",") \/ EndsWith(word, ":")
                              \/ EndsWith(word, ";")
                           THEN w1 + 3
                           ELSE w1
    IN  Max(1, w2)

Weight(word) ==
    LET isNumber == HasDigit(word)
        w1 == Len(word) + (IF isNumber THEN 2 ELSE 0)
        w2 == IF EndsWith(word, ".") \/ EndsWith(word, "!") \/ EndsWith(word, "?")
                  THEN w1 + 6
                  ELSE IF EndsWith(word, ",") \/ EndsWith(word, ":")
                              \/ EndsWith(word, ";")
                           THEN w1 + 3
                           ELSE w1
    IN  Max(1, w2)

RECURSIVE SumSeq(_)
SumSeq(ws) == IF ws = <<>> THEN 0 ELSE Head(ws) + SumSeq(Tail(ws))

\* the forEach of lines 316-328: currentTime runs from 0, one span per word
RECURSIVE Distribute(_, _, _, _)
Distribute(words, weights, durationPerWeight, currentTime) ==
    IF words = <<>>
        THEN <<>>
        ELSE LET wordDuration == RMul(RInt(Head(weights)), durationPerWeight)
             IN  <<[word      |-> Head(words),
                    startTime |-> currentTime,
                    endTime   |-> RAdd(currentTime, wordDuration)]>>
                 \o Distribute(Tail(words), Tail(weights), durationPerWeight,
                               RAdd(currentTime, wordDuration))

\* the durations are spread over the words evenly, the weights ignored
generateWordTimings_EvenSplit(t, dur) ==
    LET words == SplitWs(Trim(t))
        weights == [k \in 1..Len(words) |-> Weight(words[k])]
        durationPerWeight == RDiv(dur, RInt(Len(words)))
    IN  Distribute(words, weights, durationPerWeight, RInt(0))

generateWordTimings(t, dur) ==
    LET words == SplitWs(Trim(t))
        weights == [k \in 1..Len(words) |-> Weight(words[k])]
        totalWeight == SumSeq(weights)
        durationPerWeight == RDiv(dur, RInt(totalWeight))
    IN  Distribute(words, weights, durationPerWeight, RInt(0))

Texts == UNION {[1..k -> Alphabet] : k \in 0..MaxLen}

\* no estimate is under way
WTIdle ==
    /\ text = <<>>
    /\ duration = RInt(1)
    /\ timings = <<>>
    /\ wtpc = "idle"

\* no export is under way
ExportIdle ==
    /\ scenes = <<>>
    /\ hasVideoEncoder = TRUE
    /\ pc = "idle"
    /\ imgState = <<>>
    /\ i = 0
    /\ f = 0
    /\ audioBuffer = NoAudio
    /\ globalTimestamp = RInt(0)
    /\ totalDurationSec = RInt(0)
    /\ videoLog = <<>>
    /\ audioLog = <<>>
    /\ videoQueue = <<>>
    /\ audioQueue = <<>>
    /\ videoState = "none"
    /\ audioState = "none"
    /\ created = {}
    /\ muxVideo = <<>>
    /\ muxAudio = <<>>
    /\ finalizeCount = 0
    /\ progressLog = <<>>
    /\ result = "none"
    /\ rejectedWith = "none"

\* no generation is under way
GenIdle ==
    /\ script = <<>>
    /\ appState = "IDLE"
    /\ gpc = "idle"
    /\ gi = 0
    /\ processedScenes = <<>>
    /\ genAudio = RInt(0)
    /\ genError = "none"
    /\ alignFailed = {}

\* no comparison of two estimates is under way
PairIdle ==
    /\ pairText = <<>>
    /\ pairOther = <<>>
    /\ pairIndex = 0
    /\ pairDuration = RInt(1)
    /\ pairTimings = <<>>
    /\ pairOtherTimings = <<>>
    /\ ppc = "idle"

\* drawSubtitle has not been called
NoCall == [called |-> FALSE, currentTime |-> RInt(0), lines |-> <<>>,
           states |-> <<>>, allLines |-> <<>>, activeLineIndex |-> 0]

\* no subtitle is being drawn
SubIdle ==
    /\ subTimings = <<>>
    /\ ctxFont = 0
    /\ lastCall = NoCall
    /\ refCall = NoCall
    /\ spc = "idle"

\* no two exports overlap
OverlapIdle ==
    /\ xScenes = <<>>
    /\ xpc = <<>>
    /\ xLocal = <<>>
    /\ xTimestamp = <<>>
    /\ xObjects = <<>>
    /\ xNextObject = 0
    /\ xVideoLog = <<>>
    /\ xAudioLog = <<>>
    /\ running = 0

\* a submitted value: text that is not JSON, or the JSON values null, an
\* object that is no array, and an array, whose entries are given by shape
NoScript == [kind |-> "none", entries |-> <<>>]

\* handleGenerate has not been called
NotReached == [called |-> FALSE, script |-> NoScript]

\* no script has been submitted
EntryIdle ==
    /\ entryPath = "none"
    /\ entryInput = NoScript
    /\ hasApiKey = FALSE
    /\ epc = "idle"
    /\ reached = NotReached

\* no status request has been answered
NoResponse == [code |-> 0, body |-> <<>>]

\* the server has had no request
JobsIdle ==
    /\ jobs = <<>>
    /\ files = {}
    /\ nextJob = 0
    /\ lastStatus = NoResponse

\* no export is loading images
ImagesIdle ==
    /\ imScenes = <<>>
    /\ imLoad = <<>>
    /\ imSettled = <<>>
    /\ images = <<>>
    /\ impc = "idle"
    /\ imI = 0
    /\ imF = 0
    /\ imFrames = 0
    /\ imLog = <<>>

\* drawImage has not been called
NoDraw == [called |-> FALSE, progress |-> RInt(0), scale |-> RInt(1),
           opacity |-> RInt(1), translateX |-> RInt(0)]

\* no image is being drawn
DrawIdle ==
    /\ drTransition = "none"
    /\ lastDraw = NoDraw
    /\ refDraw = NoDraw

\* no AudioBuffer
NoBuffer == [object |-> "none", sampleRate |-> 0, length |-> 0,
             numberOfChannels |-> 0]

\* no buffer is being resampled
ResampleIdle ==
    /\ rsInput = NoBuffer
    /\ rsOutput = NoBuffer
    /\ rspc = "idle"

\* no two exports are compared
ShowIdle ==
    /\ shScenes = <<>>
    /\ shRun = <<>>

\* no headless job is running
HeadlessIdle ==
    /\ hjpc = "idle"
    /\ RENDERED_VIDEO_DATA = "undefined"
    /\ JOB_ERROR = "undefined"
    /\ isExporting = FALSE
    /\ hjReturn = "none"
    /\ waitForFunction = "idle"

InitWT ==
    /\ text \in Texts
    /\ HeadlessIdle
    /\ ShowIdle
    /\ ResampleIdle
    /\ DrawIdle
    /\ ImagesIdle
    /\ JobsIdle
    /\ EntryIdle
    /\ OverlapIdle
    /\ SubIdle
    /\ PairIdle
    /\ duration \in {RInt(k) : k \in 1..MaxDuration} \cup {Rat(1, 3)}
    /\ timings = <<>>
    /\ wtpc = "input"
    /\ ExportIdle
    /\ GenIdle

Estimate ==
    /\ wtpc = "input"
    /\ timings' = generateWordTimings(text, duration)
    /\ wtpc' = "done"
    /\ UNCHANGED <<text, duration>>
    /\ UNCHANGED nonWtVars

NextWT == Estimate

SpecWT == InitWT /\ [][NextWT]_vars

\* the text holds no word: it is empty or whitespace only
IsBlank(t) == \A k \in 1..Len(t) : IsSpace(t[k])

\* C1: for every text and every positive duration the spans returned by
\* generateWordTimings tile [0, duration]: the first starts at 0, each ends
\* where the next starts, the last ends at the duration.
C1_Tiling ==
    wtpc = "done" =>
        /\ Len(timings) >= 1
        /\ timings[1].startTime = RInt(0)
        /\ \A k \in 1..(Len(timings) - 1) :
               timings[k].endTime = timings[k + 1].startTime
        /\ timings[Len(timings)].endTime = duration

C1_Witness ==
    /\ wtpc = "done"
    /\ Len(timings) = 2
    /\ timings[1].endTime # timings[2].endTime
    /\ duration = Rat(1, 3)

\* C2: generateWordTimings applied to an empty or whitespace-only text returns
\* the empty sequence, for every duration.
C2_EmptyTextEmptyTimings ==
    (wtpc = "done" /\ IsBlank(text)) => timings = <<>>

---------------------------------------------------------------------------
(* utils/videoExporter: exportVideo                                        *)

\* AudioBuffer.duration, in seconds
Duration(buf) == Rat(buf.length, buf.sampleRate)

\* the buffers a scene may carry: two frames exactly at the target rate, just
\* over one frame at the rate of the speech service, and a single sample at
\* 44.1 kHz, whose resampled duration is longer than its own
AudioChoices ==
    {NoAudio,
     [sampleRate |-> 48000, length |-> 3200],
     [sampleRate |-> 24000, length |-> 801],
     [sampleRate |-> 44100, length |-> 1]}

SceneLists == UNION {[1..k -> [audioBuffer : AudioChoices]] : k \in 0..MaxScenes}

\* what OfflineAudioContext.startRendering resolves with: a buffer at 48 kHz of
\* Math.ceil(duration * 48000) samples
Rendered(buf) ==
    [sampleRate |-> TargetRate,
     length |-> RCeil(RMul(Duration(buf), RInt(TargetRate)))]

\* one more than the whole frames the duration holds
Frames_FloorPlusOne(durationSec) ==
    (RMul(durationSec, RInt(FPS)).n \div RMul(durationSec, RInt(FPS)).d) + 1

Frames(durationSec) == RCeil(RMul(durationSec, RInt(FPS)))

\* 1_000_000 / FPS
FrameDurationUs == Rat(UsPerSec, FPS)

FrameTimestamp(g, frame) == RAdd(g, RMul(RInt(frame), FrameDurationUs))

\* lines 311-312 and 333-334: the value passed to onProgress at frame `frame`
OverallProgress(g, frame, durationSec, total) ==
    LET progress == Rat(frame, Frames(durationSec))
        sceneTime == RMul(progress, durationSec)
        overallProgress ==
            RDiv(RAdd(g, RMul(sceneTime, RInt(UsPerSec))),
                 RMul(total, RInt(UsPerSec)))
    IN  RMul(overallProgress, RInt(100))

RECURSIVE SumDurations(_)
SumDurations(ss) ==
    IF ss = <<>>
        THEN RInt(0)
        ELSE RAdd(IF Head(ss).audioBuffer = NoAudio
                      THEN RInt(0)
                      ELSE Duration(Head(ss).audioBuffer),
                  SumDurations(Tail(ss)))

\* exportVideo is suspended in an await that gives the event loop a turn: only
\* then can the browser run an encoder's output callback
Suspended ==
    pc \in {"awaitImages", "resampling", "yield", "flushVideo", "flushAudio"}

Init ==
    /\ WTIdle
    /\ HeadlessIdle
    /\ ShowIdle
    /\ ResampleIdle
    /\ DrawIdle
    /\ ImagesIdle
    /\ JobsIdle
    /\ EntryIdle
    /\ OverlapIdle
    /\ SubIdle
    /\ PairIdle
    /\ GenIdle
    /\ scenes \in SceneLists
    /\ hasVideoEncoder \in BOOLEAN
    /\ pc = "start"
    /\ imgState = [k \in 1..Len(scenes) |-> "idle"]
    /\ i = 0
    /\ f = 0
    /\ audioBuffer = NoAudio
    /\ globalTimestamp = RInt(0)
    /\ totalDurationSec = RInt(0)
    /\ videoLog = <<>>
    /\ audioLog = <<>>
    /\ videoQueue = <<>>
    /\ audioQueue = <<>>
    /\ videoState = "none"
    /\ audioState = "none"
    /\ created = {}
    /\ muxVideo = <<>>
    /\ muxAudio = <<>>
    /\ finalizeCount = 0
    /\ progressLog = <<>>
    /\ result = "none"
    /\ rejectedWith = "none"

\* lines 210-212: no VideoEncoder
CapabilityMissing ==
    /\ pc = "start"
    /\ ~hasVideoEncoder
    /\ pc' = "rejected"
    /\ result' = "rejected"
    /\ rejectedWith' = "capability"
    /\ UNCHANGED <<imgState, progressLog, created>>
    /\ UNCHANGED <<inVars, loopVars, encVars, muxVars, nonExVars>>

\* the set-up runs whether or not the browser has a VideoEncoder
Setup_NoCapabilityCheck ==
    /\ pc = "start"
    /\ created' = {"canvas", "muxer"}
    /\ videoState' = "configured"
    /\ audioState' = "configured"
    /\ imgState' = [k \in 1..Len(scenes) |-> "loading"]
    /\ pc' = "awaitImages"
    /\ UNCHANGED <<videoLog, audioLog, videoQueue, audioQueue>>
    /\ UNCHANGED <<progressLog, result, rejectedWith>>
    /\ UNCHANGED <<inVars, loopVars, muxVars, nonExVars>>

\* lines 214-274: canvas, muxer and encoders are set up and every image load is
\* started
Setup ==
    /\ pc = "start"
    /\ hasVideoEncoder
    /\ created' = {"canvas", "muxer"}
    /\ videoState' = "configured"
    /\ audioState' = "configured"
    /\ imgState' = [k \in 1..Len(scenes) |-> "loading"]
    /\ pc' = "awaitImages"
    /\ UNCHANGED <<videoLog, audioLog, videoQueue, audioQueue>>
    /\ UNCHANGED <<progressLog, result, rejectedWith>>
    /\ UNCHANGED <<inVars, loopVars, muxVars, nonExVars>>

\* img.onload
ImageLoaded ==
    \E k \in 1..Len(scenes) :
        /\ imgState[k] = "loading"
        /\ imgState' = [imgState EXCEPT ![k] = "loaded"]
        /\ UNCHANGED <<pc, progressLog, result, rejectedWith, created>>
        /\ UNCHANGED <<inVars, loopVars, encVars, muxVars, nonExVars>>

\* img.onerror
ImageError ==
    \E k \in 1..Len(scenes) :
        /\ imgState[k] = "loading"
        /\ imgState' = [imgState EXCEPT ![k] = "failed"]
        /\ UNCHANGED <<pc, progressLog, result, rejectedWith, created>>
        /\ UNCHANGED <<inVars, loopVars, encVars, muxVars, nonExVars>>

\* Promise.all rejects with the first failure; the await throws
AwaitImagesReject ==
    /\ pc = "awaitImages"
    /\ \E k \in 1..Len(scenes) : imgState[k] = "failed"
    /\ pc' = "rejected"
    /\ result' = "rejected"
    /\ rejectedWith' = "image"
    /\ UNCHANGED <<imgState, progressLog, created>>
    /\ UNCHANGED <<inVars, loopVars, encVars, muxVars, nonExVars>>

\* the loop is entered once every load has settled, failed loads included
AwaitImagesResolve_IgnoresFailures ==
    /\ pc = "awaitImages"
    /\ \A k \in 1..Len(scenes) : imgState[k] \in {"loaded", "failed"}
    /\ globalTimestamp' = RInt(0)
    /\ totalDurationSec' = SumDurations(scenes)
    /\ i' = 1
    /\ pc' = "sceneTop"
    /\ UNCHANGED <<f, audioBuffer, imgState, progressLog, result, rejectedWith, created>>
    /\ UNCHANGED <<inVars, encVars, muxVars, nonExVars>>

\* Promise.all resolves; lines 277-283
AwaitImagesResolve ==
    /\ pc = "awaitImages"
    /\ \A k \in 1..Len(scenes) : imgState[k] = "loaded"
    /\ globalTimestamp' = RInt(0)
    /\ totalDurationSec' = SumDurations(scenes)
    /\ i' = 1
    /\ pc' = "sceneTop"
    /\ UNCHANGED <<f, audioBuffer, imgState, progressLog, result, rejectedWith, created>>
    /\ UNCHANGED <<inVars, encVars, muxVars, nonExVars>>

\* a scene without audio takes the time of one frame on the timeline
SkipScene_AdvancesTimestamp ==
    /\ pc = "sceneTop"
    /\ i <= Len(scenes)
    /\ scenes[i].audioBuffer = NoAudio
    /\ i' = i + 1
    /\ globalTimestamp' = RAdd(globalTimestamp, FrameDurationUs)
    /\ UNCHANGED <<f, audioBuffer, totalDurationSec>>
    /\ UNCHANGED <<pc, imgState, progressLog, result, rejectedWith, created>>
    /\ UNCHANGED <<inVars, encVars, muxVars, nonExVars>>

\* line 290: if (!audioBuffer) continue
SkipScene ==
    /\ pc = "sceneTop"
    /\ i <= Len(scenes)
    /\ scenes[i].audioBuffer = NoAudio
    /\ i' = i + 1
    /\ UNCHANGED <<f, audioBuffer, globalTimestamp, totalDurationSec>>
    /\ UNCHANGED <<pc, imgState, progressLog, result, rejectedWith, created>>
    /\ UNCHANGED <<inVars, encVars, muxVars, nonExVars>>

\* line 12: the buffer is at 48 kHz already and is returned as it is
ResampleNoop ==
    /\ pc = "sceneTop"
    /\ i <= Len(scenes)
    /\ scenes[i].audioBuffer # NoAudio
    /\ scenes[i].audioBuffer.sampleRate = TargetRate
    /\ audioBuffer' = scenes[i].audioBuffer
    /\ pc' = "encodeAudio"
    /\ UNCHANGED <<i, f, globalTimestamp, totalDurationSec>>
    /\ UNCHANGED <<imgState, progressLog, result, rejectedWith, created>>
    /\ UNCHANGED <<inVars, encVars, muxVars, nonExVars>>

\* lines 15-26: the offline rendering is started and awaited
ResampleStart ==
    /\ pc = "sceneTop"
    /\ i <= Len(scenes)
    /\ scenes[i].audioBuffer # NoAudio
    /\ scenes[i].audioBuffer.sampleRate # TargetRate
    /\ audioBuffer' = scenes[i].audioBuffer
    /\ pc' = "resampling"
    /\ UNCHANGED <<i, f, globalTimestamp, totalDurationSec>>
    /\ UNCHANGED <<imgState, progressLog, result, rejectedWith, created>>
    /\ UNCHANGED <<inVars, encVars, muxVars, nonExVars>>

\* startRendering resolves
ResampleDone ==
    /\ pc = "resampling"
    /\ audioBuffer' = Rendered(audioBuffer)
    /\ pc' = "encodeAudio"
    /\ UNCHANGED <<i, f, globalTimestamp, totalDurationSec>>
    /\ UNCHANGED <<imgState, progressLog, result, rejectedWith, created>>
    /\ UNCHANGED <<inVars, encVars, muxVars, nonExVars>>

\* lines 295-298: resampleTo48k throws or rejects; the catch logs and the loop
\* goes on with the original buffer
ResampleFail ==
    /\ pc = "resampling"
    /\ pc' = "encodeAudio"
    /\ UNCHANGED <<i, f, audioBuffer, globalTimestamp, totalDurationSec>>
    /\ UNCHANGED <<imgState, progressLog, result, rejectedWith, created>>
    /\ UNCHANGED <<inVars, encVars, muxVars, nonExVars>>

\* the audio of every scene is stamped with the start of the video
EncodeAudio_ZeroTimestamp ==
    /\ pc = "encodeAudio"
    /\ audioState = "configured"
    /\ audioLog' = Append(audioLog,
                          [scene |-> i,
                           timestamp |-> RInt(0),
                           sampleRate |-> audioBuffer.sampleRate,
                           numberOfFrames |-> audioBuffer.length])
    /\ audioQueue' = Append(audioQueue, RInt(0))
    /\ f' = 0
    /\ pc' = "frame"
    /\ UNCHANGED <<i, audioBuffer, globalTimestamp, totalDurationSec>>
    /\ UNCHANGED <<videoLog, videoQueue, videoState, audioState>>
    /\ UNCHANGED <<imgState, progressLog, result, rejectedWith, created>>
    /\ UNCHANGED <<inVars, muxVars, nonExVars>>

\* lines 300-307: one AudioData for the scene, timestamped globalTimestamp
EncodeAudio ==
    /\ pc = "encodeAudio"
    /\ audioState = "configured"
    /\ audioLog' = Append(audioLog,
                          [scene |-> i,
                           timestamp |-> globalTimestamp,
                           sampleRate |-> audioBuffer.sampleRate,
                           numberOfFrames |-> audioBuffer.length])
    /\ audioQueue' = Append(audioQueue, globalTimestamp)
    /\ f' = 0
    /\ pc' = "frame"
    /\ UNCHANGED <<i, audioBuffer, globalTimestamp, totalDurationSec>>
    /\ UNCHANGED <<videoLog, videoQueue, videoState, audioState>>
    /\ UNCHANGED <<imgState, progressLog, result, rejectedWith, created>>
    /\ UNCHANGED <<inVars, muxVars, nonExVars>>

\* line 306: encode() on a closed AudioEncoder throws InvalidStateError, which
\* nothing in exportVideo catches
EncodeAudioThrows ==
    /\ pc = "encodeAudio"
    /\ audioState = "closed"
    /\ pc' = "rejected"
    /\ result' = "rejected"
    /\ rejectedWith' = "InvalidStateError"
    /\ UNCHANGED <<imgState, progressLog, created>>
    /\ UNCHANGED <<inVars, loopVars, encVars, muxVars, nonExVars>>

\* lines 310-337: one frame is drawn, encoded and reported
RenderFrame ==
    /\ pc = "frame"
    /\ f < Frames(Duration(audioBuffer))
    /\ videoState = "configured"
    /\ LET frameTimestamp == FrameTimestamp(globalTimestamp, f)
       IN  /\ videoLog' = Append(videoLog,
                                 [scene |-> i,
                                  frame |-> f,
                                  timestamp |-> frameTimestamp,
                                  keyFrame |-> (f % KeyFrameEvery = 0)])
           /\ videoQueue' = Append(videoQueue, frameTimestamp)
    /\ progressLog' = Append(progressLog,
                             OverallProgress(globalTimestamp, f,
                                             Duration(audioBuffer),
                                             totalDurationSec))
    /\ IF f % YieldEvery = 0
          THEN pc' = "yield" /\ f' = f
          ELSE pc' = "frame" /\ f' = f + 1
    /\ UNCHANGED <<i, audioBuffer, globalTimestamp, totalDurationSec>>
    /\ UNCHANGED <<audioLog, audioQueue, videoState, audioState>>
    /\ UNCHANGED <<imgState, result, rejectedWith, created>>
    /\ UNCHANGED <<inVars, muxVars, nonExVars>>

\* line 329: encode() on a closed VideoEncoder throws InvalidStateError before
\* the frame is reported
RenderFrameThrows ==
    /\ pc = "frame"
    /\ f < Frames(Duration(audioBuffer))
    /\ videoState = "closed"
    /\ pc' = "rejected"
    /\ result' = "rejected"
    /\ rejectedWith' = "InvalidStateError"
    /\ UNCHANGED <<imgState, progressLog, created>>
    /\ UNCHANGED <<inVars, loopVars, encVars, muxVars, nonExVars>>

\* line 337: the setTimeout(0) timer fires
YieldResume ==
    /\ pc = "yield"
    /\ f' = f + 1
    /\ pc' = "frame"
    /\ UNCHANGED <<i, audioBuffer, globalTimestamp, totalDurationSec>>
    /\ UNCHANGED <<imgState, progressLog, result, rejectedWith, created>>
    /\ UNCHANGED <<inVars, encVars, muxVars, nonExVars>>

\* the scene ends without globalTimestamp being advanced
SceneEnd_NoAdvance ==
    /\ pc = "frame"
    /\ f >= Frames(Duration(audioBuffer))
    /\ i' = i + 1
    /\ pc' = "sceneTop"
    /\ UNCHANGED <<f, audioBuffer, globalTimestamp, totalDurationSec>>
    /\ UNCHANGED <<imgState, progressLog, result, rejectedWith, created>>
    /\ UNCHANGED <<inVars, encVars, muxVars, nonExVars>>

\* line 340: globalTimestamp += durationUs
SceneEnd ==
    /\ pc = "frame"
    /\ f >= Frames(Duration(audioBuffer))
    /\ globalTimestamp' =
           RAdd(globalTimestamp, RMul(Duration(audioBuffer), RInt(UsPerSec)))
    /\ i' = i + 1
    /\ pc' = "sceneTop"
    /\ UNCHANGED <<f, audioBuffer, totalDurationSec>>
    /\ UNCHANGED <<imgState, progressLog, result, rejectedWith, created>>
    /\ UNCHANGED <<inVars, encVars, muxVars, nonExVars>>

\* the flush is put off until the video encoder has emitted every chunk
LoopExit_WaitsForDrain ==
    /\ pc = "sceneTop"
    /\ i > Len(scenes)
    /\ videoState = "configured"
    /\ videoQueue = <<>>
    /\ pc' = "flushVideo"
    /\ UNCHANGED <<imgState, progressLog, result, rejectedWith, created>>
    /\ UNCHANGED <<inVars, loopVars, encVars, muxVars, nonExVars>>

\* line 344: the loop is over, videoEncoder.flush() is called and awaited
LoopExit ==
    /\ pc = "sceneTop"
    /\ i > Len(scenes)
    /\ videoState = "configured"
    /\ pc' = "flushVideo"
    /\ UNCHANGED <<imgState, progressLog, result, rejectedWith, created>>
    /\ UNCHANGED <<inVars, loopVars, encVars, muxVars, nonExVars>>

\* line 344: flush() on a closed VideoEncoder returns a promise rejected with
\* InvalidStateError; the await throws
FlushVideoRejects ==
    /\ pc = "sceneTop"
    /\ i > Len(scenes)
    /\ videoState = "closed"
    /\ pc' = "rejected"
    /\ result' = "rejected"
    /\ rejectedWith' = "InvalidStateError"
    /\ UNCHANGED <<imgState, progressLog, created>>
    /\ UNCHANGED <<inVars, loopVars, encVars, muxVars, nonExVars>>

\* lines 239 and 253: an encoder hands its oldest pending chunk to the muxer
VideoOutput ==
    /\ Suspended
    /\ videoQueue # <<>>
    /\ muxVideo' = Append(muxVideo, Head(videoQueue))
    /\ videoQueue' = Tail(videoQueue)
    /\ UNCHANGED <<videoLog, audioLog, audioQueue, muxAudio, finalizeCount>>
    /\ UNCHANGED <<videoState, audioState>>
    /\ UNCHANGED <<pc, imgState, progressLog, result, rejectedWith, created>>
    /\ UNCHANGED <<inVars, loopVars, nonExVars>>

AudioOutput ==
    /\ Suspended
    /\ audioQueue # <<>>
    /\ muxAudio' = Append(muxAudio, Head(audioQueue))
    /\ audioQueue' = Tail(audioQueue)
    /\ UNCHANGED <<videoLog, audioLog, videoQueue, muxVideo, finalizeCount>>
    /\ UNCHANGED <<videoState, audioState>>
    /\ UNCHANGED <<pc, imgState, progressLog, result, rejectedWith, created>>
    /\ UNCHANGED <<inVars, loopVars, nonExVars>>

\* line 345: the video flush resolved (every video chunk was output);
\* audioEncoder.flush() is called and awaited
FlushVideoDone ==
    /\ pc = "flushVideo"
    /\ videoQueue = <<>>
    /\ audioState = "configured"
    /\ pc' = "flushAudio"
    /\ UNCHANGED <<imgState, progressLog, result, rejectedWith, created>>
    /\ UNCHANGED <<inVars, loopVars, encVars, muxVars, nonExVars>>

\* line 345: the video flush resolved, and flush() on a closed AudioEncoder
\* returns a promise rejected with InvalidStateError
FlushAudioRejects ==
    /\ pc = "flushVideo"
    /\ videoQueue = <<>>
    /\ audioState = "closed"
    /\ pc' = "rejected"
    /\ result' = "rejected"
    /\ rejectedWith' = "InvalidStateError"
    /\ UNCHANGED <<imgState, progressLog, created>>
    /\ UNCHANGED <<inVars, loopVars, encVars, muxVars, nonExVars>>

\* finalize is called without the audio flush having emitted every chunk
FlushAudioDone_NoWait ==
    /\ pc = "flushAudio"
    /\ finalizeCount' = finalizeCount + 1
    /\ result' = "blob"
    /\ pc' = "done"
    /\ UNCHANGED <<muxVideo, muxAudio, imgState, progressLog, rejectedWith, created>>
    /\ UNCHANGED <<inVars, loopVars, encVars, nonExVars>>

\* lines 346-349: the audio flush resolved; finalize, and the blob is returned
FlushAudioDone ==
    /\ pc = "flushAudio"
    /\ audioQueue = <<>>
    /\ finalizeCount' = finalizeCount + 1
    /\ result' = "blob"
    /\ pc' = "done"
    /\ UNCHANGED <<muxVideo, muxAudio, imgState, progressLog, rejectedWith, created>>
    /\ UNCHANGED <<inVars, loopVars, encVars, nonExVars>>

\* lines 240 and 255: an encoder fails, while configuring (the control message
\* runs while exportVideo awaits the images) or while encoding queued work.
\* The encoder closes and drops its queue, a pending flush() is rejected with
\* the error, and the error callback only logs.
VideoError ==
    /\ Suspended
    /\ videoState = "configured"
    /\ videoQueue # <<>> \/ pc = "awaitImages"
    /\ videoState' = "closed"
    /\ videoQueue' = <<>>
    /\ IF pc = "flushVideo"
          THEN /\ pc' = "rejected"
               /\ result' = "rejected"
               /\ rejectedWith' = "encoderError"
          ELSE UNCHANGED <<pc, result, rejectedWith>>
    /\ UNCHANGED <<videoLog, audioLog, audioQueue, audioState>>
    /\ UNCHANGED <<imgState, progressLog, created>>
    /\ UNCHANGED <<inVars, loopVars, muxVars, nonExVars>>

AudioError ==
    /\ Suspended
    /\ audioState = "configured"
    /\ audioQueue # <<>> \/ pc = "awaitImages"
    /\ audioState' = "closed"
    /\ audioQueue' = <<>>
    /\ IF pc = "flushAudio"
          THEN /\ pc' = "rejected"
               /\ result' = "rejected"
               /\ rejectedWith' = "encoderError"
          ELSE UNCHANGED <<pc, result, rejectedWith>>
    /\ UNCHANGED <<videoLog, audioLog, videoQueue, videoState>>
    /\ UNCHANGED <<imgState, progressLog, created>>
    /\ UNCHANGED <<inVars, loopVars, muxVars, nonExVars>>

Next ==
    \/ CapabilityMissing
    \/ Setup
    \/ ImageLoaded
    \/ ImageError
    \/ AwaitImagesReject
    \/ AwaitImagesResolve
    \/ SkipScene
    \/ ResampleNoop
    \/ ResampleStart
    \/ ResampleDone
    \/ ResampleFail
    \/ EncodeAudio
    \/ EncodeAudioThrows
    \/ RenderFrame
    \/ RenderFrameThrows
    \/ YieldResume
    \/ SceneEnd
    \/ LoopExit
    \/ FlushVideoRejects
    \/ VideoOutput
    \/ AudioOutput
    \/ VideoError
    \/ AudioError
    \/ FlushVideoDone
    \/ FlushAudioRejects
    \/ FlushAudioDone

Spec == Init /\ [][Next]_vars

---------------------------------------------------------------------------
(* Claims about exportVideo                                                *)

NonSkipped(k) == scenes[k].audioBuffer # NoAudio

\* the seconds of audio resampleTo48k returns for a source buffer
ResampledDuration(buf) ==
    IF buf.sampleRate = TargetRate THEN Duration(buf) ELSE Duration(Rendered(buf))

\* the scenes the loop has left behind it
ScenesDone ==
    IF pc \in {"sceneTop", "resampling", "encodeAudio", "frame", "yield"}
        THEN i - 1
        ELSE IF pc \in {"flushVideo", "flushAudio", "done"} THEN Len(scenes) ELSE 0

RECURSIVE SumResampled(_)
SumResampled(ss) ==
    IF ss = <<>>
        THEN RInt(0)
        ELSE RAdd(IF Head(ss).audioBuffer = NoAudio
                      THEN RInt(0)
                      ELSE ResampledDuration(Head(ss).audioBuffer),
                  SumResampled(Tail(ss)))

\* the least integer that is at least x, for 0 <= x
LeastIntegerAtLeast(x) ==
    CHOOSE n \in 0..(x.n + 1) :
        /\ RLe(x, RInt(n))
        /\ \A m \in 0..(n - 1) : ~RLe(x, RInt(m))

FramesOf(k) == {j \in 1..Len(videoLog) : videoLog[j].scene = k}

\* where the audio of a log entry ends on the timeline, in microseconds
EndOf(e) ==
    RAdd(e.timestamp, RMul(Rat(e.numberOfFrames, e.sampleRate), RInt(UsPerSec)))

NonDecreasing(ts) ==
    \A a, b \in 1..Len(ts) : a < b => RLe(ts[a], ts[b])

\* no chunk the muxer holds is later than t
NothingLater(t) ==
    /\ \A a \in 1..Len(muxVideo) : RLe(muxVideo[a], t)
    /\ \A a \in 1..Len(muxAudio) : RLe(muxAudio[a], t)

\* C3 (as stated): the timestamps of all chunks added to the muxer, video and
\* audio taken together, never decrease in the order of submission: a chunk
\* is never added after a chunk with a later timestamp.
C3_GlobalOrder ==
    [][/\ muxVideo' # muxVideo => NothingLater(muxVideo'[Len(muxVideo')])
       /\ muxAudio' # muxAudio => NothingLater(muxAudio'[Len(muxAudio')])]_vars

\* C3 (amended): within each track the timestamps of the chunks added to the
\* muxer never decrease in the order of submission, however the output
\* callbacks of the two encoders interleave with the scene loop.
C3_PerTrackOrder ==
    /\ NonDecreasing(muxVideo)
    /\ NonDecreasing(muxAudio)

C3_Witness ==
    /\ pc = "done"
    /\ Len(muxAudio) >= 2
    /\ Len(muxAudio) = Len(audioLog)
    /\ Len(muxVideo) = Len(videoLog)
    /\ \E a, b \in 1..Len(muxVideo) : a < b /\ RLt(muxVideo[a], muxVideo[b])
    /\ \E a, b \in 1..Len(muxAudio) : a < b /\ RLt(muxAudio[a], muxAudio[b])

\* C4: globalTimestamp is 0 before the first scene, grows once per non-skipped
\* scene, after its last frame, by the resampled duration of the scene in
\* microseconds, and after the last scene is 1_000_000 times the sum of the
\* resampled durations of the non-skipped scenes.
C4_TimestampIsSumOfResampled ==
    pc \notin {"idle", "rejected"} =>
        globalTimestamp =
            RMul(SumResampled(SubSeq(scenes, 1, ScenesDone)), RInt(UsPerSec))

\* C5: a scene without audio gets no audio and no frame and leaves
\* globalTimestamp alone: the audio of each non-skipped scene, and its first
\* frame, are timestamped where the audio of the non-skipped scene before it
\* ends (at 0 for the first).
C5_SkipContinuity ==
    /\ \A j \in 1..Len(audioLog) : NonSkipped(audioLog[j].scene)
    /\ \A j \in 1..Len(videoLog) : NonSkipped(videoLog[j].scene)
    /\ \A j \in 1..Len(audioLog) :
           audioLog[j].timestamp =
               IF j = 1 THEN RInt(0) ELSE EndOf(audioLog[j - 1])
    /\ \A j \in 1..Len(videoLog) :
           videoLog[j].frame = 0 =>
               \E a \in 1..Len(audioLog) :
                   /\ audioLog[a].scene = videoLog[j].scene
                   /\ audioLog[a].timestamp = videoLog[j].timestamp
    /\ pc = "sceneTop" =>
           globalTimestamp =
               IF audioLog = <<>> THEN RInt(0) ELSE EndOf(audioLog[Len(audioLog)])

C5_Witness ==
    \E k \in 1..Len(scenes) :
        /\ ~NonSkipped(k)
        /\ \E a \in 1..Len(audioLog) : audioLog[a].scene < k
        /\ \E v \in 1..Len(videoLog) :
               /\ videoLog[v].scene > k
               /\ videoLog[v].frame = 0
               /\ videoLog[v].timestamp # RInt(0)

\* C6: every value passed to onProgress lies in [0, 100] and is at least the
\* value passed before it.
C6_ProgressBoundedMonotone ==
    \A j \in 1..Len(progressLog) :
        /\ RLe(RInt(0), progressLog[j])
        /\ RLe(progressLog[j], RInt(100))
        /\ j > 1 => RLe(progressLog[j - 1], progressLog[j])

\* C7: when an export that rendered a frame resolves, the last value passed to
\* onProgress is 100.
C7_LastProgressIs100 ==
    (pc = "done" /\ result = "blob" /\ videoLog # <<>>)
        => progressLog[Len(progressLog)] = RInt(100)

\* C8: a non-skipped scene the loop has finished got exactly
\* ceil(durationSeconds * 30) frames, durationSeconds its resampled audio
\* duration, a skipped scene none; the frames of a finished export are the sum.
C8_FrameCount ==
    /\ \A k \in 1..ScenesDone :
           Cardinality(FramesOf(k)) =
               IF NonSkipped(k)
                   THEN LeastIntegerAtLeast(
                            RMul(ResampledDuration(scenes[k].audioBuffer), RInt(30)))
                   ELSE 0
    /\ pc = "done" =>
           \A j \in 1..Len(videoLog) : videoLog[j].scene \in 1..Len(scenes)

C8_Witness ==
    /\ pc = "done"
    /\ \E k \in 1..Len(scenes) : Cardinality(FramesOf(k)) = 2
    /\ \E k \in 1..Len(scenes) : Cardinality(FramesOf(k)) = 1
    /\ \E a \in 1..Len(audioLog) : audioLog[a].sampleRate # TargetRate

\* C9: once the image of a scene failed to load, exportVideo can only reject:
\* nothing is ever submitted to an encoder, the muxer is never finalized and
\* no blob is returned.
C9_ImageFailureIsFatal ==
    (\E k \in 1..Len(scenes) : imgState[k] = "failed") =>
        /\ audioLog = <<>>
        /\ videoLog = <<>>
        /\ finalizeCount = 0
        /\ result # "blob"
        /\ pc \in {"awaitImages", "rejected"}
        /\ pc = "rejected" => result = "rejected"

C9_Witness ==
    /\ \E k \in 1..Len(scenes) : imgState[k] = "failed"
    /\ \E k \in 1..Len(scenes) : imgState[k] = "loaded"
    /\ pc = "rejected"
    /\ result = "rejected"

\* C10: when the resampling of a scene's audio fails, exportVideo rejects; no
\* audio is encoded at a sample rate other than 48 kHz.
C10_ResampleFailureIsFatal ==
    /\ [][ResampleFail => (pc' = "rejected" /\ result' = "rejected")]_vars
    /\ [](\A j \in 1..Len(audioLog) : audioLog[j].sampleRate = TargetRate)

\* an encoder has reported an error
EncoderFailed == videoState = "closed" \/ audioState = "closed"

\* C11: once either encoder has reported an error, no blob is returned and a
\* rejection carries the encoder's error, not another error
C11_EncoderErrorRejectsWithItsMessage ==
    EncoderFailed =>
        /\ result # "blob"
        /\ result = "rejected" => rejectedWith = "encoderError"

\* C12: when the promise has settled after the encoders were constructed, both
\* encoders are closed
C12_EncodersClosedOnExit ==
    (result \in {"blob", "rejected"} /\ "muxer" \in created) =>
        (videoState = "closed" /\ audioState = "closed")

\* C13: without a VideoEncoder the export only ever rejects, with the
\* capability error, and has created no canvas, muxer, encoder or image load
C13_NoCapabilityNothingCreated ==
    ~hasVideoEncoder =>
        /\ pc \in {"start", "rejected"}
        /\ created = {}
        /\ videoState = "none" /\ audioState = "none"
        /\ \A k \in 1..Len(scenes) : imgState[k] = "idle"
        /\ videoLog = <<>> /\ audioLog = <<>> /\ progressLog = <<>>
        /\ pc = "rejected" => rejectedWith = "capability"

C13_Witness ==
    /\ ~hasVideoEncoder
    /\ Len(scenes) >= 1
    /\ result = "rejected"
    /\ rejectedWith = "capability"

---------------------------------------------------------------------------
(* App: handleGenerate                                                     *)

\* the longest script
MaxScript == 4

\* the voice-over texts of a scene: "a" and "a. a"
GenTexts == <<(<<"a">>), (<<"a", ".", " ", "a">>)>>

\* the scripts: every length up to MaxScript, the two texts alternating,
\* starting with either
Scripts ==
    {[k \in 1..n |-> [voiceOverText |-> GenTexts[((k + first) % 2) + 1]]] :
        n \in 0..MaxScript, first \in 0..1}

\* audioBuffer.duration of the speech generateSpeech resolves with
SpeechDurations == {RInt(1), Rat(1, 3)}

\* line 107
transitions == <<"zoom", "slide", "fade">>

\* the cycle is entered one position late
TransitionAt_Shifted(index) == transitions[((index + 1) % Len(transitions)) + 1]

\* line 114: transitions[index % transitions.length], index counted from 0
TransitionAt(index) == transitions[(index % Len(transitions)) + 1]

\* lines 109-115
initialScenes(sc) ==
    [k \in 1..Len(sc) |->
        [script      |-> sc[k],
         status      |-> "pending",
         transition  |-> TransitionAt(k - 1),
         hasAudio    |-> FALSE,
         duration    |-> RInt(0),
         wordTimings |-> <<>>]]

\* the arrays generatePreciseTimings can resolve with: it returns whatever
\* JSON array the model answered, "[]" when the answer had no text. One span
\* over the whole audio, no span at all, and a span that ends before it starts
AlignerOutputs(dur) ==
    {<<[word |-> <<"a">>, startTime |-> RInt(0), endTime |-> dur]>>,
     <<>>,
     <<[word |-> <<"a">>, startTime |-> dur, endTime |-> RInt(0)]>>}

InitGen ==
    /\ WTIdle
    /\ HeadlessIdle
    /\ ShowIdle
    /\ ResampleIdle
    /\ DrawIdle
    /\ ImagesIdle
    /\ JobsIdle
    /\ EntryIdle
    /\ OverlapIdle
    /\ SubIdle
    /\ PairIdle
    /\ ExportIdle
    /\ script \in Scripts
    /\ appState = "IDLE"
    /\ gpc = "start"
    /\ gi = 0
    /\ processedScenes = <<>>
    /\ genAudio = RInt(0)
    /\ genError = "none"
    /\ alignFailed = {}

\* lines 104-119
GenStart ==
    /\ gpc = "start"
    /\ appState' = "PROCESSING"
    /\ processedScenes' = initialScenes(script)
    /\ gi' = 1
    /\ gpc' = "sceneTop"
    /\ UNCHANGED <<script, genAudio, genError, alignFailed>>
    /\ UNCHANGED nonGenVars

\* lines 122-133: the scene is marked and its image and speech are requested
SceneBegin ==
    /\ gpc = "sceneTop"
    /\ gi <= Len(script)
    /\ processedScenes' = [processedScenes EXCEPT ![gi].status = "generating"]
    /\ gpc' = "awaitAssets"
    /\ UNCHANGED <<script, appState, gi, genAudio, genError, alignFailed>>
    /\ UNCHANGED nonGenVars

\* lines 130-139: Promise.all resolved; generatePreciseTimings is called
AssetsResolve ==
    /\ gpc = "awaitAssets"
    /\ \E d \in SpeechDurations : genAudio' = d
    /\ gpc' = "awaitTimings"
    /\ UNCHANGED <<script, appState, gi, processedScenes, genError, alignFailed>>
    /\ UNCHANGED nonGenVars

\* lines 157-168: generateImage or generateSpeech rejected; the outer catch
\* resets the application state and rethrows
AssetsReject ==
    /\ gpc = "awaitAssets"
    /\ appState' = "IDLE"
    /\ genError' = "assets"
    /\ gpc' = "failed"
    /\ UNCHANGED <<script, gi, processedScenes, genAudio, alignFailed>>
    /\ UNCHANGED nonGenVars

\* the scene is completed without its audio buffer
Complete_WithoutAudio(scene, wordTimings) ==
    [scene EXCEPT !.wordTimings = wordTimings,
                  !.status = "completed"]

\* lines 145-152
Complete(scene, wordTimings) ==
    [scene EXCEPT !.hasAudio = TRUE,
                  !.duration = genAudio,
                  !.wordTimings = wordTimings,
                  !.status = "completed"]

\* the alignment failure is not caught: the outer catch takes it
AlignReject_Fatal ==
    /\ gpc = "awaitTimings"
    /\ appState' = "IDLE"
    /\ genError' = "alignment"
    /\ gpc' = "failed"
    /\ alignFailed' = alignFailed \cup {gi}
    /\ UNCHANGED <<script, gi, processedScenes, genAudio>>
    /\ UNCHANGED nonGenVars

\* lines 139 and 145-152: generatePreciseTimings resolved with an array
AlignResolve ==
    /\ gpc = "awaitTimings"
    /\ \E timingsArray \in AlignerOutputs(genAudio) :
           processedScenes' =
               [processedScenes EXCEPT ![gi] = Complete(@, timingsArray)]
    /\ gi' = gi + 1
    /\ gpc' = "sceneTop"
    /\ UNCHANGED <<script, appState, genAudio, genError, alignFailed>>
    /\ UNCHANGED nonGenVars

\* lines 140-152: generatePreciseTimings rejected; the inner catch calls the
\* estimator
AlignReject ==
    /\ gpc = "awaitTimings"
    /\ processedScenes' =
           [processedScenes EXCEPT
               ![gi] = Complete(@, generateWordTimings(script[gi].voiceOverText,
                                                       genAudio))]
    /\ gi' = gi + 1
    /\ gpc' = "sceneTop"
    /\ alignFailed' = alignFailed \cup {gi}
    /\ UNCHANGED <<script, appState, genAudio, genError>>
    /\ UNCHANGED nonGenVars

\* lines 154-155
GenFinish ==
    /\ gpc = "sceneTop"
    /\ gi > Len(script)
    /\ appState' = "READY"
    /\ gpc' = "done"
    /\ UNCHANGED <<script, gi, processedScenes, genAudio, genError, alignFailed>>
    /\ UNCHANGED nonGenVars

NextGen ==
    \/ GenStart
    \/ SceneBegin
    \/ AssetsResolve
    \/ AssetsReject
    \/ AlignResolve
    \/ AlignReject
    \/ GenFinish

SpecGen == InitGen /\ [][NextGen]_vars

---------------------------------------------------------------------------
(* Claims about handleGenerate                                             *)

\* C14: a scene whose precise alignment was rejected is completed with the
\* estimator's timings for its text and its audio duration, the loop has moved
\* past it, and the application state is IDLE only because an image or a speech
\* request failed
C14_AlignmentFallback ==
    /\ \A k \in alignFailed :
           /\ processedScenes[k].status = "completed"
           /\ processedScenes[k].wordTimings =
                  generateWordTimings(script[k].voiceOverText,
                                      processedScenes[k].duration)
           /\ gi > k
    /\ gpc # "start" =>
           (appState = "IDLE" <=> (gpc = "failed" /\ genError = "assets"))

C14_Witness ==
    /\ gpc = "done"
    /\ appState = "READY"
    /\ 1 \in alignFailed
    /\ 2 \notin alignFailed
    /\ Len(script) = 2
    /\ Len(processedScenes[1].wordTimings) = 2
    /\ processedScenes[2].status = "completed"

\* startTime < endTime for each word, the spans in order without overlap,
\* from 0 to the duration
TimedWordInvariant(ts, dur) ==
    /\ Len(ts) >= 1
    /\ \A k \in 1..Len(ts) : RLt(ts[k].startTime, ts[k].endTime)
    /\ \A k \in 1..(Len(ts) - 1) : RLe(ts[k].endTime, ts[k + 1].startTime)
    /\ \A k \in 1..(Len(ts) - 1) : RLe(ts[k].startTime, ts[k + 1].startTime)
    /\ ts[1].startTime = RInt(0)
    /\ ts[Len(ts)].endTime = dur

\* C15: the wordTimings of every completed scene satisfy the TimedWord
\* invariant over the scene's audio duration, whichever producer supplied them
C15_StoredTimingsWellFormed ==
    \A k \in 1..Len(processedScenes) :
        processedScenes[k].status = "completed" =>
            TimedWordInvariant(processedScenes[k].wordTimings,
                               processedScenes[k].duration)

\* C16: the scene at position k, counted from 0, has the transition zoom,
\* slide or fade as k mod 3 is 0, 1 or 2, at every moment of the generation
C16_TransitionCycle ==
    \A k \in 1..Len(processedScenes) :
        processedScenes[k].transition =
            CASE (k - 1) % 3 = 0 -> "zoom"
              [] (k - 1) % 3 = 1 -> "slide"
              [] (k - 1) % 3 = 2 -> "fade"

C16_Witness ==
    /\ gpc = "done"
    /\ Len(processedScenes) = 4
    /\ processedScenes[4].transition = "zoom"
    /\ processedScenes[3].transition = "fade"
    /\ processedScenes[4].status = "completed"

---------------------------------------------------------------------------
(* generateWordTimings on two texts that differ in one word                *)

\* the word carries no punctuation mark
Unpunctuated(word) == \A k \in 1..Len(word) : word[k] \in {"a", "1"}

\* the words joined by single spaces
RECURSIVE JoinWords(_)
JoinWords(words) ==
    IF words = <<>>
        THEN <<>>
        ELSE IF Len(words) = 1
                 THEN Head(words)
                 ELSE Head(words) \o <<" ">> \o JoinWords(Tail(words))

\* the text with the word at position k replaced
ReplaceWord(t, k, word) ==
    JoinWords([SplitWs(Trim(t)) EXCEPT ![k] = word])

\* a text, the position of one of its words that ends in a period, and a word
\* of the same length without punctuation put in its place
InitPair ==
    /\ WTIdle
    /\ HeadlessIdle
    /\ ShowIdle
    /\ ResampleIdle
    /\ DrawIdle
    /\ ImagesIdle
    /\ JobsIdle
    /\ EntryIdle
    /\ OverlapIdle
    /\ SubIdle
    /\ ExportIdle
    /\ GenIdle
    /\ pairText \in Texts
    /\ pairDuration \in {RInt(k) : k \in 1..MaxDuration} \cup {Rat(1, 3)}
    /\ pairIndex \in 1..Len(SplitWs(Trim(pairText)))
    /\ EndsWith(SplitWs(Trim(pairText))[pairIndex], ".")
    /\ \E word \in [1..Len(SplitWs(Trim(pairText))[pairIndex]) -> {"a", "1"}] :
           pairOther = ReplaceWord(pairText, pairIndex, word)
    /\ pairTimings = <<>>
    /\ pairOtherTimings = <<>>
    /\ ppc = "input"

EstimateFirst ==
    /\ ppc = "input"
    /\ pairTimings' = generateWordTimings(pairText, pairDuration)
    /\ ppc' = "first"
    /\ UNCHANGED <<pairText, pairOther, pairIndex, pairDuration, pairOtherTimings>>
    /\ UNCHANGED nonPairVars

EstimateSecond ==
    /\ ppc = "first"
    /\ pairOtherTimings' = generateWordTimings(pairOther, pairDuration)
    /\ ppc' = "done"
    /\ UNCHANGED <<pairText, pairOther, pairIndex, pairDuration, pairTimings>>
    /\ UNCHANGED nonPairVars

NextPair == EstimateFirst \/ EstimateSecond

SpecPair == InitPair /\ [][NextPair]_vars

\* the span of a is strictly longer than the span of b
LongerSpan(a, b) ==
    RLt(RAdd(b.endTime, a.startTime), RAdd(a.endTime, b.startTime))

\* the two texts have the same number of words and differ at pairIndex only,
\* where the words have the same length, one ends in a period and the other
\* has no punctuation
PairPrecondition ==
    LET ws == SplitWs(Trim(pairText))
        os == SplitWs(Trim(pairOther))
    IN  /\ Len(ws) = Len(os)
        /\ \A k \in 1..Len(ws) : (ws[k] # os[k]) <=> (k = pairIndex)
        /\ Len(ws[pairIndex]) = Len(os[pairIndex])
        /\ EndsWith(ws[pairIndex], ".")
        /\ Unpunctuated(os[pairIndex])

\* C17 as stated: the punctuated word gets a strictly longer span than the
\* unpunctuated word of the other text, whatever the word count
C17_PunctuatedStrictlyLonger ==
    (ppc = "done" /\ PairPrecondition) =>
        LongerSpan(pairTimings[pairIndex], pairOtherTimings[pairIndex])

\* C17 amended: the same when the texts have two words or more; with one word
\* both spans are the whole duration
C17_PunctuatedLongerAmongSeveral ==
    (ppc = "done" /\ PairPrecondition) =>
        IF Len(pairTimings) >= 2
            THEN LongerSpan(pairTimings[pairIndex], pairOtherTimings[pairIndex])
            ELSE /\ pairTimings[1].endTime = pairDuration
                 /\ pairOtherTimings[1].endTime = pairDuration
                 /\ pairTimings[1].startTime = pairOtherTimings[1].startTime

C17_Witness ==
    /\ ppc = "done"
    /\ PairPrecondition
    /\ Len(pairTimings) = 2
    /\ pairIndex = 1
    /\ HasDigit(SplitWs(Trim(pairOther))[1])
    /\ LongerSpan(pairTimings[1], pairOtherTimings[1])

---------------------------------------------------------------------------
(* utils/videoExporter: drawSubtitle                                       *)

\* the most words in a scene's timings
MaxWords == 5

CANVAS_WIDTH == 1080

\* the pixel sizes of "bold 48px Inter" and "bold 52px Inter", and of the
\* "10px sans-serif" a new 2D context starts with
SubtitleFontPx == 48
ActiveFontPx == 52
DefaultFontPx == 10

\* line 59
maxWidth == CANVAS_WIDTH - 150

\* a word of 18 letters, one of 8, and one of 40 that no line has room for
LongWord == [k \in 1..18 |-> "a"]
ShortWord == [k \in 1..8 |-> "a"]
WideWord == [k \in 1..40 |-> "a"]

\* the spans the two producers of timings hand over. "spoken": word k is
\* spoken from k-1 to k, or to k-1/2 with a silence after it. The aligner's
\* answer is stored as it was parsed (geminiService lines 237-243), so the
\* array can also list the words from the last spoken to the first
\* ("reversed") or give a word a startTime after its endTime ("inverted").
SpanShapes == {"spoken", "reversed", "inverted"}

SpanOf(shape, n, k, gap) ==
    LET slot == IF shape = "reversed" THEN n + 1 - k ELSE k
        from == RInt(slot - 1)
        to == IF gap THEN Rat(2 * slot - 1, 2) ELSE RInt(slot)
    IN  IF shape = "inverted"
            THEN [startTime |-> to, endTime |-> from]
            ELSE [startTime |-> from, endTime |-> to]

\* the timings of a scene: up to MaxWords words, all long, all short,
\* alternating, or short after a first word wider than a line
SubtitleTimings ==
    {[k \in 1..n |->
        [word      |-> CASE pattern = 0 -> LongWord
                         [] pattern = 1 -> ShortWord
                         [] pattern = 2 -> IF k % 2 = 1 THEN LongWord
                                                          ELSE ShortWord
                         [] pattern = 3 -> IF k = 1 THEN WideWord
                                                      ELSE ShortWord,
         startTime |-> SpanOf(shape, n, k, gap).startTime,
         endTime   |-> SpanOf(shape, n, k, gap).endTime]] :
        n \in 1..MaxWords, pattern \in 0..3, gap \in BOOLEAN,
        shape \in SpanShapes}

\* the times a frame can ask for: every half second from 0 to past the end
SubtitleTimes == {Rat(k, 2) : k \in 0..(2 * MaxWords + 1)}

\* ctx.measureText(word + " ").width: an advance of half the pixel size for
\* each character
MeasureText(word, font) == (Len(word) + 1) * (font \div 2)

\* the lines are broken with the font the context was left with
LineBreakFont_Inherited(font) == font

\* line 55: the font is set before anything is measured
LineBreakFont(font) == SubtitleFontPx

\* the running width is not reset when a line is closed
RECURSIVE BreakLines_KeepsWidth(_, _, _, _, _, _)
BreakLines_KeepsWidth(ts, k, font, lines, currentLine, currentLineWidth) ==
    IF k > Len(ts)
        THEN IF Len(currentLine) > 0 THEN Append(lines, currentLine) ELSE lines
        ELSE LET wordWidth == MeasureText(ts[k].word, font)
             IN  IF currentLineWidth + wordWidth > maxWidth
                     THEN BreakLines_KeepsWidth(ts, k + 1, font,
                                                Append(lines, currentLine),
                                                <<k>>, currentLineWidth + wordWidth)
                     ELSE BreakLines_KeepsWidth(ts, k + 1, font, lines,
                                                Append(currentLine, k),
                                                currentLineWidth + wordWidth)

\* lines 62-77: the greedy line break; a line is a sequence of positions in
\* the timings
RECURSIVE BreakLines(_, _, _, _, _, _)
BreakLines(ts, k, font, lines, currentLine, currentLineWidth) ==
    IF k > Len(ts)
        THEN IF Len(currentLine) > 0 THEN Append(lines, currentLine) ELSE lines
        ELSE LET wordWidth == MeasureText(ts[k].word, font)
             IN  IF currentLineWidth + wordWidth > maxWidth
                     THEN BreakLines(ts, k + 1, font, Append(lines, currentLine),
                                     <<k>>, wordWidth)
                     ELSE BreakLines(ts, k + 1, font, lines,
                                     Append(currentLine, k),
                                     currentLineWidth + wordWidth)

IsActive(t, currentTime) ==
    RLe(t.startTime, currentTime) /\ RLt(currentTime, t.endTime)

IsPast(t, currentTime) == RLe(t.endTime, currentTime)

\* lines.findIndex(line => line.includes(word)), counted from 0, -1 if none
FindLine(lines, k) ==
    IF \E l \in 1..Len(lines) : \E x \in 1..Len(lines[l]) : lines[l][x] = k
        THEN (CHOOSE l \in 1..Len(lines) :
                  /\ \E x \in 1..Len(lines[l]) : lines[l][x] = k
                  /\ \A m \in 1..(l - 1) :
                         \A x \in 1..Len(lines[m]) : lines[m][x] # k) - 1
        ELSE -1

\* lines 80-95
ActiveLineIndex(ts, lines, currentTime) ==
    LET active == {k \in 1..Len(ts) : IsActive(ts[k], currentTime)}
        past == {k \in 1..Len(ts) : IsPast(ts[k], currentTime)}
        found == IF active # {}
                     THEN FindLine(lines,
                                   CHOOSE k \in active : \A j \in active : k <= j)
                     ELSE IF past # {}
                              THEN FindLine(lines,
                                            CHOOSE k \in past :
                                                \A j \in past : j <= k)
                              ELSE 0
    IN  IF found = -1 THEN 0 ELSE found

\* the two lines drawn start at the active line
VisibleLines_FromActive(lines, activeLineIndex) ==
    LET end == IF activeLineIndex + 2 <= Len(lines) THEN activeLineIndex + 2
                                                      ELSE Len(lines)
    IN  SubSeq(lines, activeLineIndex + 1, end)

\* lines 99-101: lines.slice(startLineIndex, startLineIndex + 2)
VisibleLines(lines, activeLineIndex) ==
    LET pageIndex == activeLineIndex \div 2
        startLineIndex == pageIndex * 2
        end == IF startLineIndex + 2 <= Len(lines) THEN startLineIndex + 2
                                                    ELSE Len(lines)
    IN  SubSeq(lines, startLineIndex + 1, end)

\* lines 129-146
WordState(t, currentTime) ==
    IF IsActive(t, currentTime)
        THEN "active"
        ELSE IF IsPast(t, currentTime) THEN "past" ELSE "upcoming"

\* lines 137-146: the font the last drawn word leaves in the context
RECURSIVE FontAfter(_, _, _, _)
FontAfter(ts, words, currentTime, font) ==
    IF words = <<>>
        THEN font
        ELSE FontAfter(ts, Tail(words), currentTime,
                       IF IsActive(ts[Head(words)], currentTime)
                           THEN ActiveFontPx
                           ELSE SubtitleFontPx)

RECURSIVE Flatten(_)
Flatten(lines) ==
    IF lines = <<>> THEN <<>> ELSE Head(lines) \o Flatten(Tail(lines))

\* one call of drawSubtitle on a context whose font is `font`: the lines it
\* draws, the state of each of their words, the font it leaves, and the
\* lines and the active line it worked with
drawSubtitle(font, ts, currentTime) ==
    LET measured == LineBreakFont(font)
        lines == BreakLines(ts, 1, measured, <<>>, <<>>, 0)
        activeLineIndex == ActiveLineIndex(ts, lines, currentTime)
        visibleLines == VisibleLines(lines, activeLineIndex)
    IN  [lines  |-> visibleLines,
         allLines |-> lines,
         activeLineIndex |-> activeLineIndex,
         states |-> [l \in 1..Len(visibleLines) |->
                        [x \in 1..Len(visibleLines[l]) |->
                            WordState(ts[visibleLines[l][x]], currentTime)]],
         font   |-> FontAfter(ts, Flatten(visibleLines), currentTime, measured)]

\* the context is new: exportVideo has just created it
InitSub ==
    /\ WTIdle
    /\ HeadlessIdle
    /\ ShowIdle
    /\ ResampleIdle
    /\ DrawIdle
    /\ ImagesIdle
    /\ JobsIdle
    /\ EntryIdle
    /\ OverlapIdle
    /\ ExportIdle
    /\ GenIdle
    /\ PairIdle
    /\ subTimings \in SubtitleTimings
    /\ ctxFont = DefaultFontPx
    /\ lastCall = NoCall
    /\ refCall = NoCall
    /\ spc = "drawing"

\* line 317: a frame draws the subtitle for its scene time
DrawCall ==
    /\ spc = "drawing"
    /\ \E currentTime \in SubtitleTimes :
           LET drawn == drawSubtitle(ctxFont, subTimings, currentTime)
           IN  /\ lastCall' = [called      |-> TRUE,
                               currentTime |-> currentTime,
                               lines       |-> drawn.lines,
                               states      |-> drawn.states,
                               allLines    |-> drawn.allLines,
                               activeLineIndex |-> drawn.activeLineIndex]
               /\ ctxFont' = drawn.font
    /\ UNCHANGED <<subTimings, refCall, spc>>
    /\ UNCHANGED nonSubVars

\* the latest call is kept, to be compared with every later one
KeepCall ==
    /\ spc = "drawing"
    /\ lastCall.called
    /\ ~refCall.called
    /\ refCall' = lastCall
    /\ UNCHANGED <<subTimings, ctxFont, lastCall, spc>>
    /\ UNCHANGED nonSubVars

NextSub == DrawCall \/ KeepCall

SpecSub == InitSub /\ [][NextSub]_vars

\* C18: a call of drawSubtitle draws 1 or 2 lines, and it draws the lines and
\* word states that any earlier call with the same currentTime drew, whatever
\* calls came between the two
C18_PaginationDeterministic ==
    /\ lastCall.called => Len(lastCall.lines) \in 1..2
    /\ (lastCall.called /\ refCall.called
            /\ lastCall.currentTime = refCall.currentTime) =>
           (lastCall.lines = refCall.lines /\ lastCall.states = refCall.states)

\* two calls at the same time on the second page, the first made with the
\* 48px font in the context and the second after a call that left 52px
C18_Witness ==
    /\ refCall.called
    /\ lastCall.called
    /\ lastCall.currentTime = refCall.currentTime
    /\ Len(lastCall.lines) = 1
    /\ lastCall.lines[1][1] = 5
    /\ lastCall.states[1][1] = "active"
    /\ ctxFont = ActiveFontPx
    /\ Len(subTimings) = 5
    /\ subTimings[1].word = LongWord

---------------------------------------------------------------------------
(* Two invocations of exportVideo that overlap                             *)

\* the most scenes an overlapping export has
MaxOverlapScenes == 2

Invocations == 1..2

\* the environment is the one without failures: the browser has a
\* VideoEncoder, every image loads, every resampling succeeds and no encoder
\* reports an error. handleExport returns at once for an empty list, and a
\* scene carries a buffer at the target rate or at the rate of the speech
\* service
OverlapSceneLists ==
    UNION {[1..k -> [audioBuffer : {[sampleRate |-> 48000, length |-> 3200],
                                    [sampleRate |-> 24000, length |-> 801]}]] :
              k \in 1..MaxOverlapScenes}

\* the awaits of exportVideo: the thread is free while an invocation is there
Waiting == {"awaitImages", "resampling", "yield", "flushVideo", "flushAudio"}

\* one cell for the two invocations, as a module-level variable would be
TimestampCell_Shared(v) == 1

\* line 277: globalTimestamp is a let of the function body, one per invocation
TimestampCell(v) == v

InitOverlap ==
    /\ WTIdle
    /\ HeadlessIdle
    /\ ShowIdle
    /\ ResampleIdle
    /\ DrawIdle
    /\ ImagesIdle
    /\ JobsIdle
    /\ EntryIdle
    /\ ExportIdle
    /\ GenIdle
    /\ PairIdle
    /\ SubIdle
    /\ xScenes \in [Invocations -> OverlapSceneLists]
    /\ xpc = [v \in Invocations |-> "start"]
    /\ xLocal = [v \in Invocations |-> [i |-> 0, f |-> 0, audioBuffer |-> NoAudio]]
    /\ xTimestamp = [c \in Invocations |-> RInt(0)]
    /\ xObjects = [v \in Invocations |-> 0]
    /\ xNextObject = 0
    /\ xVideoLog = [o \in Invocations |-> <<>>]
    /\ xAudioLog = [o \in Invocations |-> <<>>]
    /\ running = 0

\* JavaScript runs one invocation at a time, up to its next await
MayRun(v, at) ==
    /\ xpc[v] = at
    /\ running = IF at \in Waiting \cup {"start"} THEN 0 ELSE v

Goes(v, to) ==
    /\ xpc' = [xpc EXCEPT ![v] = to]
    /\ running' = IF to \in Waiting \cup {"done"} THEN 0 ELSE v

\* lines 214-274: the invocation creates its canvas, muxer and encoders
OverlapSetup(v) ==
    /\ MayRun(v, "start")
    /\ xNextObject' = xNextObject + 1
    /\ xObjects' = [xObjects EXCEPT ![v] = xNextObject + 1]
    /\ Goes(v, "awaitImages")
    /\ UNCHANGED <<xScenes, xLocal, xTimestamp, xVideoLog, xAudioLog>>
    /\ UNCHANGED nonXVars

\* lines 276-285: the images are there; globalTimestamp = 0 and the loop starts
OverlapImagesLoaded(v) ==
    /\ MayRun(v, "awaitImages")
    /\ xTimestamp' = [xTimestamp EXCEPT ![TimestampCell(v)] = RInt(0)]
    /\ xLocal' = [xLocal EXCEPT ![v].i = 1]
    /\ Goes(v, "sceneTop")
    /\ UNCHANGED <<xScenes, xObjects, xNextObject, xVideoLog, xAudioLog>>
    /\ UNCHANGED nonXVars

\* lines 286-298: the next scene's buffer, resampled if it is not at 48 kHz
OverlapSceneTop(v) ==
    /\ MayRun(v, "sceneTop")
    /\ xLocal[v].i <= Len(xScenes[v])
    /\ xLocal' = [xLocal EXCEPT
                     ![v].audioBuffer = xScenes[v][xLocal[v].i].audioBuffer]
    /\ IF xScenes[v][xLocal[v].i].audioBuffer.sampleRate = TargetRate
          THEN Goes(v, "encodeAudio")
          ELSE Goes(v, "resampling")
    /\ UNCHANGED <<xScenes, xTimestamp, xObjects, xNextObject, xVideoLog,
                   xAudioLog>>
    /\ UNCHANGED nonXVars

OverlapResampleDone(v) ==
    /\ MayRun(v, "resampling")
    /\ xLocal' = [xLocal EXCEPT ![v].audioBuffer = Rendered(@)]
    /\ Goes(v, "encodeAudio")
    /\ UNCHANGED <<xScenes, xTimestamp, xObjects, xNextObject, xVideoLog,
                   xAudioLog>>
    /\ UNCHANGED nonXVars

\* lines 300-307
OverlapEncodeAudio(v) ==
    /\ MayRun(v, "encodeAudio")
    /\ xAudioLog' =
           [xAudioLog EXCEPT
               ![xObjects[v]] =
                   Append(@, [timestamp |-> xTimestamp[TimestampCell(v)],
                              numberOfFrames |-> xLocal[v].audioBuffer.length])]
    /\ xLocal' = [xLocal EXCEPT ![v].f = 0]
    /\ Goes(v, "frame")
    /\ UNCHANGED <<xScenes, xTimestamp, xObjects, xNextObject, xVideoLog>>
    /\ UNCHANGED nonXVars

\* lines 310-337
OverlapRenderFrame(v) ==
    /\ MayRun(v, "frame")
    /\ xLocal[v].f < Frames(Duration(xLocal[v].audioBuffer))
    /\ xVideoLog' =
           [xVideoLog EXCEPT
               ![xObjects[v]] =
                   Append(@, FrameTimestamp(xTimestamp[TimestampCell(v)],
                                            xLocal[v].f))]
    /\ IF xLocal[v].f % YieldEvery = 0
          THEN Goes(v, "yield") /\ UNCHANGED xLocal
          ELSE Goes(v, "frame") /\ xLocal' = [xLocal EXCEPT ![v].f = @ + 1]
    /\ UNCHANGED <<xScenes, xTimestamp, xObjects, xNextObject, xAudioLog>>
    /\ UNCHANGED nonXVars

OverlapYieldResume(v) ==
    /\ MayRun(v, "yield")
    /\ xLocal' = [xLocal EXCEPT ![v].f = @ + 1]
    /\ Goes(v, "frame")
    /\ UNCHANGED <<xScenes, xTimestamp, xObjects, xNextObject, xVideoLog,
                   xAudioLog>>
    /\ UNCHANGED nonXVars

\* line 340
OverlapSceneEnd(v) ==
    /\ MayRun(v, "frame")
    /\ xLocal[v].f >= Frames(Duration(xLocal[v].audioBuffer))
    /\ xTimestamp' =
           [xTimestamp EXCEPT
               ![TimestampCell(v)] =
                   RAdd(@, RMul(Duration(xLocal[v].audioBuffer),
                                RInt(UsPerSec)))]
    /\ xLocal' = [xLocal EXCEPT ![v].i = @ + 1]
    /\ Goes(v, "sceneTop")
    /\ UNCHANGED <<xScenes, xObjects, xNextObject, xVideoLog, xAudioLog>>
    /\ UNCHANGED nonXVars

\* line 344
OverlapLoopExit(v) ==
    /\ MayRun(v, "sceneTop")
    /\ xLocal[v].i > Len(xScenes[v])
    /\ Goes(v, "flushVideo")
    /\ UNCHANGED <<xScenes, xLocal, xTimestamp, xObjects, xNextObject,
                   xVideoLog, xAudioLog>>
    /\ UNCHANGED nonXVars

\* line 345
OverlapFlushVideoDone(v) ==
    /\ MayRun(v, "flushVideo")
    /\ Goes(v, "flushAudio")
    /\ UNCHANGED <<xScenes, xLocal, xTimestamp, xObjects, xNextObject,
                   xVideoLog, xAudioLog>>
    /\ UNCHANGED nonXVars

\* lines 346-349
OverlapFlushAudioDone(v) ==
    /\ MayRun(v, "flushAudio")
    /\ Goes(v, "done")
    /\ UNCHANGED <<xScenes, xLocal, xTimestamp, xObjects, xNextObject,
                   xVideoLog, xAudioLog>>
    /\ UNCHANGED nonXVars

NextOverlap ==
    \E v \in Invocations :
        \/ OverlapSetup(v)
        \/ OverlapImagesLoaded(v)
        \/ OverlapSceneTop(v)
        \/ OverlapResampleDone(v)
        \/ OverlapEncodeAudio(v)
        \/ OverlapRenderFrame(v)
        \/ OverlapYieldResume(v)
        \/ OverlapSceneEnd(v)
        \/ OverlapLoopExit(v)
        \/ OverlapFlushVideoDone(v)
        \/ OverlapFlushAudioDone(v)

SpecOverlap == InitOverlap /\ [][NextOverlap]_vars

\* what one export running alone gives its encoders: per scene the buffer at
\* 48 kHz, one audio submission at the running total of the durations, and a
\* frame every 1/30 s from there
SoloBuffer(buf) == IF buf.sampleRate = 48000 THEN buf ELSE Rendered(buf)

RECURSIVE SoloAudio(_, _)
SoloAudio(ss, g) ==
    IF ss = <<>>
        THEN <<>>
        ELSE LET buf == SoloBuffer(Head(ss).audioBuffer)
             IN  <<[timestamp |-> g, numberOfFrames |-> buf.length]>>
                 \o SoloAudio(Tail(ss),
                              RAdd(g, RMul(Rat(buf.length, buf.sampleRate),
                                      RInt(1000000))))

RECURSIVE SoloVideo(_, _)
SoloVideo(ss, g) ==
    IF ss = <<>>
        THEN <<>>
        ELSE LET buf == SoloBuffer(Head(ss).audioBuffer)
                 n == LeastIntegerAtLeast(RMul(Rat(buf.length, buf.sampleRate),
                                               RInt(30)))
             IN  [k \in 1..n |-> RAdd(g, RMul(RInt(k - 1), Rat(1000000, 30)))]
                 \o SoloVideo(Tail(ss),
                              RAdd(g, RMul(Rat(buf.length, buf.sampleRate),
                                      RInt(1000000))))

IsPrefix(a, b) == Len(a) <= Len(b) /\ a = SubSeq(b, 1, Len(a))

\* C19: the two invocations hold different canvases, muxers and encoders, and
\* what each has given its encoders is at every moment the beginning of what
\* it gives them when it runs alone, and the whole of it once it is done
C19_OverlapIsolated ==
    /\ (xObjects[1] # 0 /\ xObjects[2] # 0) => xObjects[1] # xObjects[2]
    /\ \A v \in Invocations :
           xObjects[v] # 0 =>
               /\ IsPrefix(xVideoLog[xObjects[v]], SoloVideo(xScenes[v], RInt(0)))
               /\ IsPrefix(xAudioLog[xObjects[v]], SoloAudio(xScenes[v], RInt(0)))
               /\ xpc[v] = "done" =>
                      /\ xVideoLog[xObjects[v]] = SoloVideo(xScenes[v], RInt(0))
                      /\ xAudioLog[xObjects[v]] = SoloAudio(xScenes[v], RInt(0))

\* both exports are in the yield of their second scene, at different totals
C19_Witness ==
    /\ xpc[1] = "yield"
    /\ xpc[2] = "yield"
    /\ xLocal[1].i = 2
    /\ xLocal[2].i = 2
    /\ xScenes[1] # xScenes[2]
    /\ xTimestamp[1] # xTimestamp[2]
    /\ Len(xVideoLog[xObjects[1]]) = 3

---------------------------------------------------------------------------
(* The entry paths of a script: the form, the URL parameter, the server    *)

\* the longest submitted array
MaxEntries == 2

\* an entry of a submitted array: { voiceOverText: string, imagePrompt:
\* string }, an object whose voiceOverText or imagePrompt is no string, a
\* value that is no object, and null
EntryShapes == {"valid", "noText", "noPrompt", "notObject", "null"}

Submissions ==
    {[kind |-> k, entries |-> <<>>] : k \in {"notJson", "null", "object"}}
    \cup {[kind |-> "array", entries |-> es] :
              es \in UNION {[1..n -> EntryShapes] : n \in 0..MaxEntries}}

\* Array.isArray(value)
IsArray(value) == value.kind = "array"

\* ScriptInput.tsx lines 46-51: the test of one entry
EntryIsValid(item) ==
    /\ item # "notObject"
    /\ item # "null"
    /\ item # "noText"
    /\ item # "noPrompt"

InitEntry ==
    /\ WTIdle
    /\ HeadlessIdle
    /\ ShowIdle
    /\ ResampleIdle
    /\ DrawIdle
    /\ ImagesIdle
    /\ JobsIdle
    /\ ExportIdle
    /\ GenIdle
    /\ PairIdle
    /\ SubIdle
    /\ OverlapIdle
    /\ entryPath \in {"form", "url", "headless"}
    /\ entryInput \in Submissions
    /\ hasApiKey \in BOOLEAN
    /\ epc = "submitted"
    /\ reached = NotReached

\* ScriptInput.tsx lines 37-60: the form parses, checks the array and every
\* entry, and calls onGenerate, which is App's handleGenerate
FormSubmit ==
    /\ entryPath = "form"
    /\ epc = "submitted"
    /\ IF /\ entryInput.kind # "notJson"
          /\ IsArray(entryInput)
          /\ \A k \in 1..Len(entryInput.entries) :
                 EntryIsValid(entryInput.entries[k])
          THEN /\ reached' = [called |-> TRUE, script |-> entryInput]
               /\ epc' = "generating"
          ELSE /\ epc' = "rejected"
               /\ UNCHANGED reached
    /\ UNCHANGED <<entryPath, entryInput, hasApiKey>>
    /\ UNCHANGED nonEntryVars

\* App lines 71-98: the script parameter is decoded and parsed, and whatever
\* JSON value comes out is handed to handleGenerate
UrlLoad ==
    /\ entryPath = "url"
    /\ epc = "submitted"
    /\ IF entryInput.kind # "notJson"
          THEN /\ reached' = [called |-> TRUE, script |-> entryInput]
               /\ epc' = "generating"
          ELSE /\ epc' = "rejected"
               /\ UNCHANGED reached
    /\ UNCHANGED <<entryPath, entryInput, hasApiKey>>
    /\ UNCHANGED nonEntryVars

\* server.js lines 103-154: POST /api/generate answers 401 without a valid
\* key, 400 unless the script is an array, and queues the job otherwise
ServerPost ==
    /\ entryPath = "headless"
    /\ epc = "submitted"
    /\ epc' = IF ~hasApiKey
                  THEN "rejected"
                  ELSE IF entryInput.kind = "notJson" \/ ~IsArray(entryInput)
                           THEN "rejected"
                           ELSE "queued"
    /\ UNCHANGED <<entryPath, entryInput, hasApiKey, reached>>
    /\ UNCHANGED nonEntryVars

\* server.js processJob and App lines 47-56: the page's startHeadlessJob is
\* called with the job's configuration and calls handleGenerate(config.script)
HeadlessStart ==
    /\ entryPath = "headless"
    /\ epc = "queued"
    /\ reached' = [called |-> TRUE, script |-> entryInput]
    /\ epc' = "generating"
    /\ UNCHANGED <<entryPath, entryInput, hasApiKey>>
    /\ UNCHANGED nonEntryVars

NextEntry ==
    \/ FormSubmit
    \/ UrlLoad
    \/ ServerPost
    \/ HeadlessStart

SpecEntry == InitEntry /\ [][NextEntry]_vars

\* an array whose every entry is an object with a string voiceOverText and a
\* string imagePrompt
Conforming(value) ==
    /\ value.kind = "array"
    /\ \A k \in 1..Len(value.entries) : value.entries[k] = "valid"

\* C20: whatever handleGenerate is called with is a conforming script, on the
\* form path, the URL path and the headless path
C20_OnlyConformingScriptsReachGenerate ==
    reached.called => Conforming(reached.script)

---------------------------------------------------------------------------
(* server.js: the job store and GET /api/status/:id                        *)

\* the most jobs the server is given
MaxJobs == 2

\* uuidv4(): one fresh identifier per job
JobNames == <<"job-1", "job-2", "job-3", "job-4">>

\* the API keys that pass the server's validation
ApiKeys == {"key-A", "key-B"}

\* the messages a failed job ends with: the page has no startHeadlessJob, the
\* page set JOB_ERROR, the wait for the result timed out
JobErrorMessages == {"App not ready", "JOB_ERROR", "Waiting failed"}

\* an object with one more property, or with one property overwritten
SetField(obj, name, value) ==
    [fld \in DOMAIN obj \cup {name} |-> IF fld = name THEN value ELSE obj[fld]]

\* { config, ...rest } = obj: the properties other than config
Rest(obj) == [fld \in DOMAIN obj \ {"config"} |-> obj[fld]]

\* the whole job is sent
StatusResponse_WholeJob(job) == [code |-> 200, body |-> job]

\* lines 168-181: the body of the answer for a job that exists
StatusResponse(job) ==
    LET safeJobData == Rest(job)
    IN  IF safeJobData.status = "completed"
            THEN [code |-> 200,
                  body |-> [id          |-> safeJobData.id,
                            status      |-> "completed",
                            videoUrl    |-> safeJobData.filename,
                            expiresIn   |-> "48 hours",
                            completedAt |-> safeJobData.completedAt]]
            ELSE [code |-> 200, body |-> safeJobData]

InitJobs ==
    /\ WTIdle
    /\ HeadlessIdle
    /\ ShowIdle
    /\ ResampleIdle
    /\ DrawIdle
    /\ ImagesIdle
    /\ ExportIdle
    /\ GenIdle
    /\ PairIdle
    /\ SubIdle
    /\ OverlapIdle
    /\ EntryIdle
    /\ jobs = <<>>
    /\ files = {}
    /\ nextJob = 0
    /\ lastStatus = NoResponse

\* lines 129-146 and 189-191: POST /api/generate with a valid key and an array
\* stores the job as queued and calls processJob, which marks it processing
\* before its first await
PostGenerate ==
    /\ nextJob < MaxJobs
    /\ \E apiKey \in ApiKeys :
           LET jobId == JobNames[nextJob + 1]
               job == [id        |-> jobId,
                       status    |-> "queued",
                       createdAt |-> "Date.now()",
                       config    |-> [apiKey |-> apiKey, sceneCount |-> 1]]
           IN  jobs' = [j \in DOMAIN jobs \cup {nextJob + 1} |->
                           IF j = nextJob + 1
                               THEN SetField(job, "status", "processing")
                               ELSE jobs[j]]
    /\ nextJob' = nextJob + 1
    /\ UNCHANGED <<files, lastStatus>>
    /\ UNCHANGED nonJobVars

\* the job is marked completed before the file is written
WorkerCompletes_BeforeWrite ==
    /\ \E j \in DOMAIN jobs :
           /\ jobs[j].status = "processing"
           /\ jobs' = [jobs EXCEPT
                          ![j] = SetField(SetField(SetField(@,
                                     "status", "completed"),
                                     "filename", JobNames[j]),
                                     "completedAt", "Date.now()")]
    /\ UNCHANGED <<files, nextJob, lastStatus>>
    /\ UNCHANGED nonJobVars

\* lines 288-302: the result arrived; the file is written and the job completed
WorkerCompletes ==
    /\ \E j \in DOMAIN jobs :
           /\ jobs[j].status = "processing"
           /\ files' = files \cup {JobNames[j]}
           /\ jobs' = [jobs EXCEPT
                          ![j] = SetField(SetField(SetField(@,
                                     "status", "completed"),
                                     "filename", JobNames[j]),
                                     "completedAt", "Date.now()")]
    /\ UNCHANGED <<nextJob, lastStatus>>
    /\ UNCHANGED nonJobVars

\* lines 306-309: anything in the worker threw
WorkerFails ==
    /\ \E j \in DOMAIN jobs, message \in JobErrorMessages :
           /\ jobs[j].status = "processing"
           /\ jobs' = [jobs EXCEPT
                          ![j] = SetField(SetField(@, "status", "error"),
                                          "error", message)]
    /\ UNCHANGED <<files, nextJob, lastStatus>>
    /\ UNCHANGED nonJobVars

\* lines 58-79: the hourly cleanup finds a file past its retention, deletes it
\* and drops the jobs that name it
Cleanup ==
    /\ \E file \in files :
           /\ files' = files \ {file}
           /\ jobs' = [j \in {k \in DOMAIN jobs :
                                 ~("filename" \in DOMAIN jobs[k]
                                       /\ jobs[k].filename = file)} |->
                           jobs[j]]
    /\ UNCHANGED <<nextJob, lastStatus>>
    /\ UNCHANGED nonJobVars

\* lines 160-182
GetStatus ==
    /\ \E j \in 1..MaxJobs :
           lastStatus' = IF j \in DOMAIN jobs
                             THEN StatusResponse(jobs[j])
                             ELSE [code |-> 404,
                                   body |-> [error |-> "Job not found"]]
    /\ UNCHANGED <<jobs, files, nextJob>>
    /\ UNCHANGED nonJobVars

NextJobs ==
    \/ PostGenerate
    \/ WorkerCompletes
    \/ WorkerFails
    \/ Cleanup
    \/ GetStatus

SpecJobs == InitJobs /\ [][NextJobs]_vars

\* C21: the body of a status response has no config property and none of its
\* values is the API key of a job
C21_StatusHidesKeyAndConfig ==
    lastStatus.code # 0 =>
        /\ "config" \notin DOMAIN lastStatus.body
        /\ \A fld \in DOMAIN lastStatus.body :
               lastStatus.body[fld] \notin ApiKeys

\* a status response for a failed job, and one for a completed job
C21_Witness ==
    /\ lastStatus.code = 200
    /\ lastStatus.body.status = "error"
    /\ "error" \in DOMAIN lastStatus.body
    /\ \E j \in DOMAIN jobs :
           /\ jobs[j].status = "completed"
           /\ jobs[j].config.apiKey \in ApiKeys

---------------------------------------------------------------------------
(* Claims about the order of the submissions of exportVideo                *)

\* a flush has been called
FlushStarted == pc \in {"flushVideo", "flushAudio", "done"}

\* the audio of scene k and every frame its audio calls for were submitted
SceneSubmitted(k) ==
    \E a \in 1..Len(audioLog) :
        /\ audioLog[a].scene = k
        /\ Cardinality(FramesOf(k)) =
               LeastIntegerAtLeast(RMul(Rat(audioLog[a].numberOfFrames,
                                            audioLog[a].sampleRate),
                                        RInt(30)))

\* C22: a flush starts only when every scene with audio has been submitted
\* whole; finalize is called at most once, once when the blob is returned, and
\* only with both flushes complete; nothing is encoded once a flush has started
C22_FlushAfterAllThenFinalizeOnce ==
    /\ [](FlushStarted =>
              \A k \in 1..Len(scenes) : NonSkipped(k) => SceneSubmitted(k))
    /\ [](finalizeCount <= 1 /\ (result = "blob" <=> finalizeCount = 1))
    /\ [](finalizeCount >= 1 =>
              /\ pc = "done"
              /\ videoQueue = <<>> /\ audioQueue = <<>>
              /\ Len(muxVideo) = Len(videoLog) /\ Len(muxAudio) = Len(audioLog))
    /\ [][FlushStarted => (videoLog' = videoLog /\ audioLog' = audioLog)]_vars

C22_Witness ==
    /\ result = "blob"
    /\ finalizeCount = 1
    /\ Len(scenes) = 2
    /\ Len(audioLog) = 2
    /\ Len(muxVideo) = 4
    /\ Len(muxAudio) = 2


AudioCallsOf(k) == {a \in 1..Len(audioLog) : audioLog[a].scene = k}

\* C23: every scene the loop has left and did not skip has exactly one audio
\* submission and no scene has more; the submission carries the value
\* globalTimestamp has held since the scene began, is made when no frame of
\* its scene and every frame of the scenes before it has been submitted, and
\* a frame is submitted only for the scene of the latest audio submission
C23_OneAudioCallPerSceneBeforeItsFrames ==
    /\ [](\A k \in 1..Len(scenes) :
              /\ Cardinality(AudioCallsOf(k)) <= 1
              /\ (k <= ScenesDone /\ NonSkipped(k)) =>
                     Cardinality(AudioCallsOf(k)) = 1
              /\ ~NonSkipped(k) => AudioCallsOf(k) = {})
    /\ [][globalTimestamp' # globalTimestamp => (pc = "frame" /\ i' = i + 1)]_vars
    /\ [][audioLog' # audioLog =>
              /\ Len(audioLog') = Len(audioLog) + 1
              /\ LET e == audioLog'[Len(audioLog')]
                 IN  /\ e.scene = i
                     /\ e.timestamp = globalTimestamp
                     /\ FramesOf(e.scene) = {}
                     /\ videoLog' = videoLog
                     /\ \A j \in 1..Len(videoLog) : videoLog[j].scene < e.scene
                     /\ \A a \in 1..Len(audioLog) :
                            /\ audioLog[a].scene < e.scene
                            /\ SceneSubmitted(audioLog[a].scene)]_vars
    /\ [][videoLog' # videoLog =>
              /\ audioLog # <<>>
              /\ audioLog' = audioLog
              /\ videoLog'[Len(videoLog')].scene = audioLog[Len(audioLog)].scene]_vars

\* the second of two scenes with audio has had its audio and a frame submitted
C23_Witness ==
    /\ Len(audioLog) = 2
    /\ audioLog[2].scene = 2
    /\ audioLog[2].timestamp # RInt(0)
    /\ FramesOf(1) # {}
    /\ FramesOf(2) # {}

---------------------------------------------------------------------------
(* exportVideo, the images (videoExporter lines 265-341): one Image per    *)
(* scene is created and given its src in one synchronous map(), the loads  *)
(* complete in any order, Promise.all gathers the elements and the scene   *)
(* loop draws images[i] in every frame of scene i.                         *)

MaxImages == 3
MaxSceneFrames == 2

\* the scenes, each with or without audio
ImageSceneLists ==
    UNION {[1..n -> [hasAudio : BOOLEAN]] : n \in 1..MaxImages}

\* line 268: the Image created by the k-th callback of scenes.map
NewImage(k) == [element |-> k]

\* the array is in the order the loads completed
PromiseAll_CompletionOrder(values, settled) ==
    [k \in 1..Len(values) |-> values[settled[k]]]

\* line 266: Promise.all resolves with the values of its promises in the order
\* of the promises, whatever the order they were fulfilled in
PromiseAll(values, settled) ==
    [k \in 1..Len(values) |-> values[k]]

InitImages ==
    /\ WTIdle
    /\ HeadlessIdle
    /\ ShowIdle
    /\ ResampleIdle
    /\ DrawIdle
    /\ ExportIdle
    /\ GenIdle
    /\ PairIdle
    /\ SubIdle
    /\ OverlapIdle
    /\ EntryIdle
    /\ JobsIdle
    /\ imScenes \in ImageSceneLists
    /\ imLoad = [k \in 1..Len(imScenes) |-> "idle"]
    /\ imSettled = <<>>
    /\ images = <<>>
    /\ impc = "start"
    /\ imI = 0
    /\ imF = 0
    /\ imFrames = 0
    /\ imLog = <<>>

\* lines 266-274: scenes.map runs every executor, each sets img.src, and
\* exportVideo awaits the Promise.all
ImStartLoads ==
    /\ impc = "start"
    /\ imLoad' = [k \in 1..Len(imScenes) |-> "loading"]
    /\ impc' = "awaitImages"
    /\ UNCHANGED <<imScenes, imSettled, images, imI, imF, imFrames, imLog>>
    /\ UNCHANGED nonImVars

\* line 269: img.onload resolves the promise of that image with the image
ImOnload ==
    \E k \in 1..Len(imScenes) :
        /\ imLoad[k] = "loading"
        /\ imLoad' = [imLoad EXCEPT ![k] = "loaded"]
        /\ imSettled' = Append(imSettled, k)
        /\ UNCHANGED <<imScenes, images, impc, imI, imF, imFrames, imLog>>
        /\ UNCHANGED nonImVars

\* line 270: img.onerror rejects the promise of that image
ImOnerror ==
    \E k \in 1..Len(imScenes) :
        /\ imLoad[k] = "loading"
        /\ imLoad' = [imLoad EXCEPT ![k] = "failed"]
        /\ UNCHANGED <<imScenes, imSettled, images, impc, imI, imF, imFrames, imLog>>
        /\ UNCHANGED nonImVars

\* line 266: Promise.all rejects as soon as one promise has; the await throws
ImAwaitReject ==
    /\ impc = "awaitImages"
    /\ \E k \in 1..Len(imScenes) : imLoad[k] = "failed"
    /\ impc' = "rejected"
    /\ UNCHANGED <<imScenes, imLoad, imSettled, images, imI, imF, imFrames, imLog>>
    /\ UNCHANGED nonImVars

\* line 266: every promise is fulfilled, the await returns the array
ImAwaitResolve ==
    /\ impc = "awaitImages"
    /\ \A k \in 1..Len(imScenes) : imLoad[k] = "loaded"
    /\ images' = PromiseAll([k \in 1..Len(imScenes) |-> NewImage(k)], imSettled)
    /\ imI' = 1
    /\ impc' = "sceneTop"
    /\ UNCHANGED <<imScenes, imLoad, imSettled, imF, imFrames, imLog>>
    /\ UNCHANGED nonImVars

\* line 290: a scene without audio is passed over
ImSkipScene ==
    /\ impc = "sceneTop"
    /\ imI <= Len(imScenes)
    /\ ~imScenes[imI].hasAudio
    /\ imI' = imI + 1
    /\ UNCHANGED <<imScenes, imLoad, imSettled, images, impc, imF, imFrames, imLog>>
    /\ UNCHANGED nonImVars

\* lines 292-307: the audio of the scene is resampled and submitted; its
\* duration gives the number of frames
ImEncodeAudio ==
    /\ impc = "sceneTop"
    /\ imI <= Len(imScenes)
    /\ imScenes[imI].hasAudio
    /\ \E n \in 0..MaxSceneFrames : imFrames' = n
    /\ imF' = 0
    /\ imLog' = Append(imLog, [kind |-> "audio", scene |-> imI, img |-> NewImage(0)])
    /\ impc' = "frame"
    /\ UNCHANGED <<imScenes, imLoad, imSettled, images, imI>>
    /\ UNCHANGED nonImVars

\* lines 287, 315, 329: a frame is drawn with img = images[i] and submitted
ImRenderFrame ==
    /\ impc = "frame"
    /\ imF < imFrames
    /\ imLog' = Append(imLog, [kind |-> "frame", scene |-> imI, img |-> images[imI]])
    /\ imF' = imF + 1
    /\ UNCHANGED <<imScenes, imLoad, imSettled, images, impc, imI, imFrames>>
    /\ UNCHANGED nonImVars

\* line 340: the frame loop of the scene ends
ImSceneEnd ==
    /\ impc = "frame"
    /\ imF >= imFrames
    /\ imI' = imI + 1
    /\ impc' = "sceneTop"
    /\ UNCHANGED <<imScenes, imLoad, imSettled, images, imF, imFrames, imLog>>
    /\ UNCHANGED nonImVars

\* line 285: the scene loop ends
ImLoopExit ==
    /\ impc = "sceneTop"
    /\ imI > Len(imScenes)
    /\ impc' = "done"
    /\ UNCHANGED <<imScenes, imLoad, imSettled, images, imI, imF, imFrames, imLog>>
    /\ UNCHANGED nonImVars

NextImages ==
    \/ ImStartLoads
    \/ ImOnload
    \/ ImOnerror
    \/ ImAwaitReject
    \/ ImAwaitResolve
    \/ ImSkipScene
    \/ ImEncodeAudio
    \/ ImRenderFrame
    \/ ImSceneEnd
    \/ ImLoopExit

SpecImages == InitImages /\ [][NextImages]_vars

\* C24: the loads of all scenes start in one step; nothing is submitted to an
\* encoder while a load is under way or has failed; and every frame of scene k
\* shows the element created for scene k, in whatever order the loads completed
C24_ImagesLoadedFirstAndMatched ==
    /\ [][imLoad' # imLoad /\ (\E k \in 1..Len(imScenes) : imLoad[k] = "idle")
              => \A k \in 1..Len(imScenes) : imLoad[k] = "idle" /\ imLoad'[k] = "loading"]_vars
    /\ [](imLog # <<>> => \A k \in 1..Len(imScenes) : imLoad[k] = "loaded")
    /\ [](\A e \in 1..Len(imLog) :
              imLog[e].kind = "frame" => imLog[e].img.element = imLog[e].scene)

\* the loads completed in the order 3, 1, 2 and every scene has a frame
C24_Witness ==
    /\ imSettled = <<3, 1, 2>>
    /\ \A k \in 1..3 : \E e \in 1..Len(imLog) :
           imLog[e].kind = "frame" /\ imLog[e].scene = k

---------------------------------------------------------------------------
(* Claims about drawSubtitle                                               *)

\* line k of the latest call, counted from 0, holds word w of the timings
LineHolds(k, w) ==
    /\ k + 1 \in 1..Len(lastCall.allLines)
    /\ \E x \in 1..Len(lastCall.allLines[k + 1]) : lastCall.allLines[k + 1][x] = w

\* the words whose span contains the time of the latest call, and the words
\* that have ended by then
SpokenNow ==
    {w \in 1..Len(subTimings) :
        /\ RLe(subTimings[w].startTime, lastCall.currentTime)
        /\ RLt(lastCall.currentTime, subTimings[w].endTime)}

Completed ==
    {w \in 1..Len(subTimings) : RLe(subTimings[w].endTime, lastCall.currentTime)}

\* C25: the active line holds the word being spoken; when none is, it holds
\* the completed word that ended last; when no word has ended it is line 0
C25_ActiveLineSelection ==
    lastCall.called =>
        IF SpokenNow # {}
            THEN \A w \in SpokenNow : LineHolds(lastCall.activeLineIndex, w)
            ELSE IF Completed # {}
                     THEN \A w \in Completed :
                              (\A v \in Completed :
                                   RLe(subTimings[v].endTime, subTimings[w].endTime))
                                  => LineHolds(lastCall.activeLineIndex, w)
                     ELSE lastCall.activeLineIndex = 0


\* the page of a line: the p with 2p <= line < 2p + 2
PageOf(line) == CHOOSE p \in 0..line : 2 * p <= line /\ line < 2 * p + 2

\* C26: a call draws line 2p and, if there is one, line 2p+1 of the lines it
\* broke the timings into, p being the page of the active line: one or two
\* consecutive lines, the active line among them
C26_DrawsThePageOfTheActiveLine ==
    lastCall.called =>
        LET p == PageOf(lastCall.activeLineIndex)
            onPage == {l \in 0..(Len(lastCall.allLines) - 1) :
                          l = 2 * p \/ l = 2 * p + 1}
        IN  /\ Len(lastCall.lines) \in 1..2
            /\ Len(lastCall.lines) = Cardinality(onPage)
            /\ \A x \in 1..Len(lastCall.lines) :
                   /\ 2 * p + x - 1 \in onPage
                   /\ lastCall.lines[x] = lastCall.allLines[2 * p + x]
            /\ lastCall.activeLineIndex \in onPage

\* the second of three lines is active, and the first two lines are drawn
C26_Witness ==
    /\ lastCall.called
    /\ Len(lastCall.allLines) = 3
    /\ lastCall.activeLineIndex = 1
    /\ Len(lastCall.lines) = 2


NotStarted ==
    {w \in 1..Len(subTimings) : RLt(lastCall.currentTime, subTimings[w].startTime)}

\* the states the three conditions give word w at the time of the latest call
StatesOf(w) ==
    {s \in {"active", "past", "upcoming"} :
        \/ s = "active" /\ w \in SpokenNow
        \/ s = "past" /\ w \in Completed
        \/ s = "upcoming" /\ w \in NotStarted}

\* the timings are in spoken order, each word ending after it starts and
\* before the next one starts
SpokenInOrder ==
    /\ \A w \in 1..Len(subTimings) :
           RLt(subTimings[w].startTime, subTimings[w].endTime)
    /\ \A w \in 1..(Len(subTimings) - 1) :
           RLe(subTimings[w].endTime, subTimings[w + 1].startTime)

\* C27: at the time of a call exactly one of the conditions active, past and
\* upcoming holds of each word, and it is the state the word is drawn in; for
\* timings in spoken order at most one word is active, the words before it
\* are past and the words after it upcoming
C27_ExactlyOneStatePerWord ==
    lastCall.called =>
        /\ \A w \in 1..Len(subTimings) : Cardinality(StatesOf(w)) = 1
        /\ \A l \in 1..Len(lastCall.lines) :
               \A x \in 1..Len(lastCall.lines[l]) :
                   lastCall.states[l][x] \in StatesOf(lastCall.lines[l][x])
        /\ SpokenInOrder =>
               /\ Cardinality(SpokenNow) <= 1
               /\ \A a \in SpokenNow :
                      \A w \in 1..Len(subTimings) :
                          /\ w < a => w \in Completed
                          /\ w > a => w \in NotStarted


\* the width of the words of a line, each measured with its trailing space
\* in the 48px font
RECURSIVE LineWidth(_)
LineWidth(line) ==
    IF line = <<>>
        THEN 0
        ELSE MeasureText(subTimings[Head(line)].word, SubtitleFontPx)
                 + LineWidth(Tail(line))

\* the line of the latest call that holds word w, counted from 1, and the
\* place of w in it
LineOf(w) ==
    CHOOSE l \in 1..Len(lastCall.allLines) :
        \E x \in 1..Len(lastCall.allLines[l]) : lastCall.allLines[l][x] = w

PlaceOf(w) ==
    CHOOSE x \in 1..Len(lastCall.allLines[LineOf(w)]) :
        lastCall.allLines[LineOf(w)][x] = w

\* word w opens a line that is not the first
StartsNewLine(w) == PlaceOf(w) = 1 /\ LineOf(w) > 1

\* the width of the line under way when word w is reached
RunningWidth(w) ==
    IF StartsNewLine(w)
        THEN LineWidth(lastCall.allLines[LineOf(w) - 1])
        ELSE LineWidth(SubSeq(lastCall.allLines[LineOf(w)], 1, PlaceOf(w) - 1))

\* C28: the lines of a call, one after the other, are the timings in their
\* order; a word opens a new line exactly when the running width and its own
\* width together exceed the maximum width; a line of two words or more is
\* no wider than the maximum width
C28_GreedyLineBreaking ==
    lastCall.called =>
        /\ Flatten(lastCall.allLines) = [w \in 1..Len(subTimings) |-> w]
        /\ \A w \in 1..Len(subTimings) :
               StartsNewLine(w) <=>
                   RunningWidth(w)
                       + MeasureText(subTimings[w].word, SubtitleFontPx)
                       > CANVAS_WIDTH - 150
        /\ \A l \in 1..Len(lastCall.allLines) :
               Len(lastCall.allLines[l]) > 1 =>
                   LineWidth(lastCall.allLines[l]) <= CANVAS_WIDTH - 150

\* a first word wider than a line, alone on the second line, and four short
\* words on the third
C28_Witness ==
    /\ lastCall.called
    /\ lastCall.allLines = <<<<>>, <<1>>, <<2, 3, 4, 5>>>>

---------------------------------------------------------------------------
(* utils/videoExporter: drawImage (lines 154-198), the transform of the    *)
(* image as a function of the transition and the progress of the scene     *)

MaxFrameCount == 6

\* types.ts line 6
TransitionTypes == {"fade", "slide", "zoom", "none"}

\* line 311: progress = f / frames, for the frames f of a scene
Progresses ==
    {q \in {Rat(fr, frames) : fr \in 0..MaxFrameCount, frames \in 1..MaxFrameCount} :
        RLt(q, RInt(1))}

RSub(a, b) == RAdd(a, [n |-> -b.n, d |-> b.d])

RMin(a, b) == IF RLe(a, b) THEN a ELSE b

\* Math.pow(x, 3)
Cube(x) == RMul(x, RMul(x, x))

\* the transition runs over the whole scene
EasedProgress_Linear(progress) == progress

\* line 184: Math.min(progress * 2, 1)
EasedProgress(progress) == RMin(RMul(progress, RInt(2)), RInt(1))

\* lines 163-196: the scale, the opacity and the horizontal offset the image
\* is drawn with
drawImage(transition, progress) ==
    LET easedProgress == EasedProgress(progress)
        t == RSub(RInt(1), Cube(RSub(RInt(1), easedProgress)))
    IN  [scale      |-> IF transition = "zoom"
                            THEN RAdd(RInt(1), RMul(progress, Rat(15, 100)))
                            ELSE RInt(1),
         translateX |-> IF transition = "slide"
                            THEN RMul(RSub(RInt(1), t), RInt(CANVAS_WIDTH))
                            ELSE RInt(0),
         opacity    |-> IF transition = "fade" THEN easedProgress ELSE RInt(1)]

InitDraw ==
    /\ WTIdle
    /\ HeadlessIdle
    /\ ShowIdle
    /\ ResampleIdle
    /\ ExportIdle
    /\ GenIdle
    /\ PairIdle
    /\ SubIdle
    /\ OverlapIdle
    /\ EntryIdle
    /\ JobsIdle
    /\ ImagesIdle
    /\ drTransition \in TransitionTypes
    /\ lastDraw = NoDraw
    /\ refDraw = NoDraw

\* line 315: a frame draws the image of its scene
DrawImageCall ==
    /\ \E progress \in Progresses :
           LET drawn == drawImage(drTransition, progress)
           IN  lastDraw' = [called     |-> TRUE,
                            progress   |-> progress,
                            scale      |-> drawn.scale,
                            opacity    |-> drawn.opacity,
                            translateX |-> drawn.translateX]
    /\ UNCHANGED <<drTransition, refDraw>>
    /\ UNCHANGED nonDrVars

\* the latest call is kept, to be compared with every later one
KeepDraw ==
    /\ lastDraw.called
    /\ ~refDraw.called
    /\ refDraw' = lastDraw
    /\ UNCHANGED <<drTransition, lastDraw>>
    /\ UNCHANGED nonDrVars

NextDraw == DrawImageCall \/ KeepDraw

SpecDraw == InitDraw /\ [][NextDraw]_vars

\* C29: a slide is drawn a canvas width to the side at progress 0, no farther
\* at a later progress than at an earlier one, and in place from progress 1/2
\* on; a fade is drawn with opacity 0 at progress 0, no lower at a later
\* progress than at an earlier one, and with opacity 1 from progress 1/2 on
C29_SlideAndFadeCompleteAtHalf ==
    lastDraw.called =>
        /\ drTransition = "slide" =>
               /\ lastDraw.progress = RInt(0) => lastDraw.translateX = RInt(1080)
               /\ RLe(Rat(1, 2), lastDraw.progress) => lastDraw.translateX = RInt(0)
               /\ (refDraw.called /\ RLe(refDraw.progress, lastDraw.progress)) =>
                      RLe(lastDraw.translateX, refDraw.translateX)
        /\ drTransition = "fade" =>
               /\ lastDraw.progress = RInt(0) => lastDraw.opacity = RInt(0)
               /\ RLe(Rat(1, 2), lastDraw.progress) => lastDraw.opacity = RInt(1)
               /\ (refDraw.called /\ RLe(refDraw.progress, lastDraw.progress)) =>
                      RLe(refDraw.opacity, lastDraw.opacity)

\* a slide drawn part of the way at progress 1/3 and in place at progress 2/3
C29_Witness ==
    /\ drTransition = "slide"
    /\ refDraw.called
    /\ refDraw.progress = Rat(1, 3)
    /\ refDraw.translateX = RInt(40)
    /\ lastDraw.called
    /\ lastDraw.progress = Rat(2, 3)
    /\ lastDraw.translateX = RInt(0)

---------------------------------------------------------------------------
(* utils/videoExporter: resampleTo48k (lines 11-27)                        *)

MaxSamples == 6
MaxChannels == 2

\* the rates an AudioBuffer can have, among them the 24 kHz of the speech
\* service and the target rate
SourceRates == {8000, 22050, 24000, 44100, 48000, 96000}

SourceBuffers ==
    [object : {"input"}, sampleRate : SourceRates, length : 1..MaxSamples,
     numberOfChannels : 1..MaxChannels]

\* the context is as long as the whole samples the duration holds
RenderLength_Floor(buf) ==
    RMul(Duration(buf), RInt(TargetRate)).n \div RMul(Duration(buf), RInt(TargetRate)).d

\* line 17: Math.ceil(audioBuffer.duration * 48000)
RenderLength(buf) == RCeil(RMul(Duration(buf), RInt(TargetRate)))

\* lines 15-26: startRendering resolves with a new buffer that has the
\* channels, the length and the rate the OfflineAudioContext was created with
StartRendering(numberOfChannels, length, sampleRate) ==
    [object |-> "rendered", sampleRate |-> sampleRate, length |-> length,
     numberOfChannels |-> numberOfChannels]

InitResample ==
    /\ WTIdle
    /\ HeadlessIdle
    /\ ShowIdle
    /\ ExportIdle
    /\ GenIdle
    /\ PairIdle
    /\ SubIdle
    /\ OverlapIdle
    /\ EntryIdle
    /\ JobsIdle
    /\ ImagesIdle
    /\ DrawIdle
    /\ rsInput \in SourceBuffers
    /\ rsOutput = NoBuffer
    /\ rspc = "start"

\* line 12: a buffer at the target rate is returned as it is
ResampleReturnsInput ==
    /\ rspc = "start"
    /\ rsInput.sampleRate = TargetRate
    /\ rsOutput' = rsInput
    /\ rspc' = "done"
    /\ UNCHANGED rsInput
    /\ UNCHANGED nonRsVars

\* lines 15-26: the offline context is created, the source connected and
\* started, and the rendering awaited
ResampleRender ==
    /\ rspc = "start"
    /\ rsInput.sampleRate # TargetRate
    /\ rspc' = "rendering"
    /\ UNCHANGED <<rsInput, rsOutput>>
    /\ UNCHANGED nonRsVars

\* line 26: startRendering resolves
ResampleResolves ==
    /\ rspc = "rendering"
    /\ rsOutput' = StartRendering(rsInput.numberOfChannels,
                                  RenderLength(rsInput), TargetRate)
    /\ rspc' = "done"
    /\ UNCHANGED rsInput
    /\ UNCHANGED nonRsVars

\* line 26: startRendering rejects, and resampleTo48k with it
ResampleRejects ==
    /\ rspc = "rendering"
    /\ rspc' = "rejected"
    /\ UNCHANGED <<rsInput, rsOutput>>
    /\ UNCHANGED nonRsVars

NextResample ==
    \/ ResampleReturnsInput
    \/ ResampleRender
    \/ ResampleResolves
    \/ ResampleRejects

SpecResample == InitResample /\ [][NextResample]_vars

---------------------------------------------------------------------------
(* Claims about the weights of generateWordTimings                         *)

\* the weight the claim gives a word
StatedWeight(word) ==
    LET last == IF word = <<>> THEN " " ELSE word[Len(word)]
        sum == Len(word)
                 + (IF \E k \in 1..Len(word) : word[k] = "1" THEN 2 ELSE 0)
                 + (IF last \in {".", "!", "?"} THEN 6 ELSE 0)
                 + (IF last \in {",", ":", ";"} THEN 3 ELSE 0)
    IN  IF sum < 1 THEN 1 ELSE sum

RECURSIVE StatedWeightSum(_)
StatedWeightSum(ts) ==
    IF ts = <<>> THEN 0
                 ELSE StatedWeight(Head(ts).word) + StatedWeightSum(Tail(ts))

RECURSIVE WithoutSpaces(_)
WithoutSpaces(s) ==
    IF s = <<>>
        THEN <<>>
        ELSE IF Head(s) = " " THEN WithoutSpaces(Tail(s))
                              ELSE <<Head(s)>> \o WithoutSpaces(Tail(s))

RECURSIVE WordsJoined(_)
WordsJoined(ts) ==
    IF ts = <<>> THEN <<>> ELSE Head(ts).word \o WordsJoined(Tail(ts))

\* C31: the span of each word is as long as its weight times the duration
\* over the sum of the weights, the weight being the length of the word, 2
\* more for a digit, 6 more for a closing '.', '!' or '?', 3 more for a
\* closing ',', ':' or ';', and 1 at least; the words come in text order
C31_SpanIsWeightShare ==
    wtpc = "done" =>
        /\ \A k \in 1..Len(timings) :
               RMul(RSub(timings[k].endTime, timings[k].startTime),
                    RInt(StatedWeightSum(timings)))
                   = RMul(RInt(StatedWeight(timings[k].word)), duration)
        /\ WordsJoined(timings) = WithoutSpaces(text)
        /\ \A k \in 1..Len(timings) :
               \A x \in 1..Len(timings[k].word) : timings[k].word[x] # " "

\* "1 a.": a digit of weight 3 and a closing word of weight 8
C31_Witness ==
    /\ wtpc = "done"
    /\ text = <<"1", " ", "a", ".">>
    /\ Len(timings) = 2
    /\ timings[1].endTime = RMul(Rat(3, 11), duration)

---------------------------------------------------------------------------
(* exportVideo with and without subtitles (videoExporter lines 285-341):   *)
(* the scene loop of two calls on the same scene list, one with            *)
(* showSubtitles true and one with showSubtitles false, each run on its    *)
(* own, with every image loaded, every resampling done and no encoder      *)
(* error                                                                   *)

MaxShowScenes == 2

\* scene.wordTimings: undefined, an empty array, or an array of one word
WordTimingsChoices ==
    {[defined |-> FALSE, length |-> 0],
     [defined |-> TRUE, length |-> 0],
     [defined |-> TRUE, length |-> 1]}

\* the audio of a scene: none, two frames exactly, or a little over one frame
ShowAudioChoices ==
    {NoAudio,
     [sampleRate |-> 48000, length |-> 3200],
     [sampleRate |-> 24000, length |-> 801]}

ShowSceneLists ==
    UNION {[1..n -> [audioBuffer : ShowAudioChoices,
                     wordTimings : WordTimingsChoices]] : n \in 1..MaxShowScenes}

\* a subtitle is drawn wherever the scene has words
SubtitleDrawn_IgnoresFlag(showSubtitles, wordTimings) ==
    wordTimings.defined /\ wordTimings.length # 0

\* line 316 and line 52: drawSubtitle is called when showSubtitles and
\* scene.wordTimings are truthy, and returns at once on an empty array
SubtitleDrawn(showSubtitles, wordTimings) ==
    /\ showSubtitles /\ wordTimings.defined
    /\ ~(~wordTimings.defined \/ wordTimings.length = 0)

\* lines 293 and 300: the buffer the scene loop goes on with
Resampled(buf) == IF buf.sampleRate = TargetRate THEN buf ELSE Rendered(buf)

\* line 312: the time passed to drawSubtitle at frame `frame`
SceneTime(frame, durationSec) ==
    RMul(Rat(frame, Frames(durationSec)), durationSec)

InitShow ==
    /\ WTIdle
    /\ HeadlessIdle
    /\ ExportIdle
    /\ GenIdle
    /\ PairIdle
    /\ SubIdle
    /\ OverlapIdle
    /\ EntryIdle
    /\ JobsIdle
    /\ ImagesIdle
    /\ DrawIdle
    /\ ResampleIdle
    /\ shScenes \in ShowSceneLists
    /\ shRun = [showSubtitles \in BOOLEAN |->
                   [pc |-> "sceneTop", i |-> 1, f |-> 0,
                    globalTimestamp |-> RInt(0),
                    audioLog |-> <<>>, videoLog |-> <<>>, progressLog |-> <<>>,
                    drawLog |-> <<>>, result |-> "pending"]]

\* line 290: a scene without audio is passed over
ShowSkipScene(s) ==
    /\ shRun[s].pc = "sceneTop"
    /\ shRun[s].i <= Len(shScenes)
    /\ shScenes[shRun[s].i].audioBuffer = NoAudio
    /\ shRun' = [shRun EXCEPT ![s].i = @ + 1]
    /\ UNCHANGED shScenes
    /\ UNCHANGED nonShVars

\* lines 292-307: the audio of the scene is resampled and submitted
ShowEncodeAudio(s) ==
    /\ shRun[s].pc = "sceneTop"
    /\ shRun[s].i <= Len(shScenes)
    /\ shScenes[shRun[s].i].audioBuffer # NoAudio
    /\ LET resampled == Resampled(shScenes[shRun[s].i].audioBuffer)
       IN  shRun' = [shRun EXCEPT
                        ![s].audioLog =
                            Append(@, [scene |-> shRun[s].i,
                                       timestamp |-> shRun[s].globalTimestamp,
                                       sampleRate |-> resampled.sampleRate,
                                       numberOfFrames |-> resampled.length]),
                        ![s].f = 0,
                        ![s].pc = "frame"]
    /\ UNCHANGED shScenes
    /\ UNCHANGED nonShVars

\* lines 310-337: one frame is drawn, submitted and reported
ShowRenderFrame(s) ==
    /\ shRun[s].pc = "frame"
    /\ LET scene == shScenes[shRun[s].i]
           durationSec == Duration(Resampled(scene.audioBuffer))
           frame == shRun[s].f
       IN  /\ frame < Frames(durationSec)
           /\ shRun' = [shRun EXCEPT
                  ![s].drawLog =
                      Append(@, [scene |-> shRun[s].i,
                                 frame |-> frame,
                                 subtitle |-> SubtitleDrawn(s, scene.wordTimings),
                                 sceneTime |-> SceneTime(frame, durationSec)]),
                  ![s].videoLog =
                      Append(@, [scene |-> shRun[s].i,
                                 frame |-> frame,
                                 timestamp |->
                                     FrameTimestamp(shRun[s].globalTimestamp, frame),
                                 keyFrame |-> (frame % KeyFrameEvery = 0)]),
                  ![s].progressLog =
                      Append(@, OverallProgress(shRun[s].globalTimestamp, frame,
                                                durationSec,
                                                SumDurations(shScenes))),
                  ![s].f = frame + 1]
    /\ UNCHANGED shScenes
    /\ UNCHANGED nonShVars

\* line 340: the frame loop ends and globalTimestamp is advanced
ShowSceneEnd(s) ==
    /\ shRun[s].pc = "frame"
    /\ LET durationSec == Duration(Resampled(shScenes[shRun[s].i].audioBuffer))
       IN  /\ shRun[s].f >= Frames(durationSec)
           /\ shRun' = [shRun EXCEPT
                  ![s].globalTimestamp =
                      RAdd(@, RMul(durationSec, RInt(UsPerSec))),
                  ![s].i = @ + 1,
                  ![s].pc = "sceneTop"]
    /\ UNCHANGED shScenes
    /\ UNCHANGED nonShVars

\* lines 344-349: the loop ends, the encoders are flushed, the blob returned
ShowFinish(s) ==
    /\ shRun[s].pc = "sceneTop"
    /\ shRun[s].i > Len(shScenes)
    /\ shRun' = [shRun EXCEPT ![s].pc = "done", ![s].result = "blob"]
    /\ UNCHANGED shScenes
    /\ UNCHANGED nonShVars

NextShow ==
    \E s \in BOOLEAN :
        \/ ShowSkipScene(s)
        \/ ShowEncodeAudio(s)
        \/ ShowRenderFrame(s)
        \/ ShowSceneEnd(s)
        \/ ShowFinish(s)

SpecShow == InitShow /\ [][NextShow]_vars

\* the frames on which a call drew a subtitle
FramesWithSubtitle(s) ==
    {e \in 1..Len(shRun[s].drawLog) : shRun[s].drawLog[e].subtitle}

\* C32: the call with showSubtitles false draws no subtitle; neither call
\* draws one for a scene whose wordTimings are undefined or empty; and once
\* both calls have returned, their audio submissions, their frames with
\* timestamps and keyframe flags, and their progress values are the same
C32_FlagChangesOnlySubtitles ==
    /\ FramesWithSubtitle(FALSE) = {}
    /\ \A s \in BOOLEAN : \A e \in FramesWithSubtitle(s) :
           LET wt == shScenes[shRun[s].drawLog[e].scene].wordTimings
           IN  wt.defined /\ wt.length > 0
    /\ (shRun[TRUE].pc = "done" /\ shRun[FALSE].pc = "done") =>
           /\ shRun[TRUE].audioLog = shRun[FALSE].audioLog
           /\ shRun[TRUE].videoLog = shRun[FALSE].videoLog
           /\ shRun[TRUE].progressLog = shRun[FALSE].progressLog

\* both calls have returned, each with four frames, and the call with
\* showSubtitles true drew a subtitle on the frames of the second scene only
C32_Witness ==
    /\ shRun[TRUE].pc = "done"
    /\ shRun[FALSE].pc = "done"
    /\ Len(shRun[FALSE].videoLog) = 4
    /\ Len(shRun[TRUE].videoLog) = 4
    /\ FramesWithSubtitle(TRUE) = {3, 4}

---------------------------------------------------------------------------
(* exportVideo under a fair event loop: a pending image load, resampling,  *)
(* timer or flush settles in the end, and code that can run does run       *)

MaxLiveScenes == 2

InitLive == Init /\ Len(scenes) <= MaxLiveScenes

SpecLive == InitLive /\ [][Next]_vars /\ WF_vars(Next)

\* C33: every call of exportVideo ends: the promise it returned is resolved
\* with the blob or rejected
C33_ExportSettles == <>(pc \in {"done", "rejected"})

\* a call on two scenes with audio has gone through both and returned
C33_Witness ==
    /\ pc = "done"
    /\ result = "blob"
    /\ Len(scenes) = 2
    /\ \A k \in 1..2 : NonSkipped(k) /\ FramesOf(k) # {}

---------------------------------------------------------------------------
(* App: window.startHeadlessJob, and the server waiting for its result     *)

\* the job has been invoked and has called handleGenerate with the script
InitHeadless ==
    /\ WTIdle
    /\ ShowIdle
    /\ ResampleIdle
    /\ DrawIdle
    /\ ImagesIdle
    /\ JobsIdle
    /\ EntryIdle
    /\ OverlapIdle
    /\ SubIdle
    /\ PairIdle
    /\ ExportIdle
    /\ script \in Scripts
    /\ appState = "IDLE"
    /\ gpc = "start"
    /\ gi = 0
    /\ processedScenes = <<>>
    /\ genAudio = RInt(0)
    /\ genError = "none"
    /\ alignFailed = {}
    /\ hjpc = "handleGenerate"
    /\ RENDERED_VIDEO_DATA = "undefined"
    /\ JOB_ERROR = "undefined"
    /\ isExporting = FALSE
    /\ hjReturn = "none"
    /\ waitForFunction = "polling"

\* part_000:61-65, handleGenerate rethrew: the catch of startHeadlessJob
\* stores the message
GenerateThrew ==
    /\ hjpc = "handleGenerate"
    /\ gpc = "failed"
    /\ JOB_ERROR' = genError
    /\ hjReturn' = "error"
    /\ hjpc' = "returned"
    /\ UNCHANGED <<RENDERED_VIDEO_DATA, isExporting, waitForFunction>>
    /\ UNCHANGED nonHjVars

\* part_000:58-60 and 177: handleExport is called with the scenes
\* handleGenerate resolved with, returns at once on an empty array, and
\* startHeadlessJob returns { status: 'success' }
HandleExportReturns ==
    /\ hjpc = "handleGenerate"
    /\ gpc = "done"
    /\ processedScenes = <<>>
    /\ hjReturn' = "success"
    /\ hjpc' = "returned"
    /\ UNCHANGED <<RENDERED_VIDEO_DATA, JOB_ERROR, isExporting, waitForFunction>>
    /\ UNCHANGED nonHjVars

\* part_000:177-181: handleExport calls exportVideo
HandleExportStarts ==
    /\ hjpc = "handleGenerate"
    /\ gpc = "done"
    /\ processedScenes # <<>>
    /\ isExporting' = TRUE
    /\ hjpc' = "exportVideo"
    /\ UNCHANGED <<RENDERED_VIDEO_DATA, JOB_ERROR, hjReturn, waitForFunction>>
    /\ UNCHANGED nonHjVars

\* part_000:181-190, 206-208 and 60: exportVideo resolved with the blob; the
\* FileReader is started and startHeadlessJob returns { status: 'success' }
ExportResolved ==
    /\ hjpc = "exportVideo"
    /\ isExporting' = FALSE
    /\ hjReturn' = "success"
    /\ hjpc' = "readAsDataURL"
    /\ UNCHANGED <<RENDERED_VIDEO_DATA, JOB_ERROR, waitForFunction>>
    /\ UNCHANGED nonHjVars

\* part_000:202-208 and 61-65: exportVideo rejected; handleExport rethrows
\* and the catch of startHeadlessJob stores the message
ExportRejected ==
    /\ hjpc = "exportVideo"
    /\ isExporting' = FALSE
    /\ JOB_ERROR' = "export"
    /\ hjReturn' = "error"
    /\ hjpc' = "returned"
    /\ UNCHANGED <<RENDERED_VIDEO_DATA, waitForFunction>>
    /\ UNCHANGED nonHjVars

\* part_000:188-190: reader.onloadend
ReaderLoadEnd ==
    /\ hjpc = "readAsDataURL"
    /\ RENDERED_VIDEO_DATA' = "data:"
    /\ hjpc' = "returned"
    /\ UNCHANGED <<JOB_ERROR, isExporting, hjReturn, waitForFunction>>
    /\ UNCHANGED nonHjVars

\* server.js:283-285: the polled expression became truthy
WaitResolves ==
    /\ waitForFunction = "polling"
    /\ RENDERED_VIDEO_DATA # "undefined" \/ JOB_ERROR # "undefined"
    /\ waitForFunction' = "resolved"
    /\ UNCHANGED <<hjpc, RENDERED_VIDEO_DATA, JOB_ERROR, isExporting, hjReturn>>
    /\ UNCHANGED nonHjVars

\* server.js:285: the 10 minutes pass with neither global set. The job is
\* given all the time it needs: the timeout is taken only once the job has
\* returned and nothing is pending in the page
WaitTimesOut ==
    /\ waitForFunction = "polling"
    /\ hjpc = "returned"
    /\ RENDERED_VIDEO_DATA = "undefined" /\ JOB_ERROR = "undefined"
    /\ waitForFunction' = "timeout"
    /\ UNCHANGED <<hjpc, RENDERED_VIDEO_DATA, JOB_ERROR, isExporting, hjReturn>>
    /\ UNCHANGED nonHjVars

NextHeadless ==
    \/ GenStart
    \/ SceneBegin
    \/ AssetsResolve
    \/ AssetsReject
    \/ AlignResolve
    \/ AlignReject
    \/ GenFinish
    \/ GenerateThrew
    \/ HandleExportReturns
    \/ HandleExportStarts
    \/ ExportResolved
    \/ ExportRejected
    \/ ReaderLoadEnd
    \/ WaitResolves
    \/ WaitTimesOut

\* every pending request, export and read settles, and code that can run runs
SpecHeadless == InitHeadless /\ [][NextHeadless]_vars /\ WF_vars(NextHeadless)

\* C34: every invocation of startHeadlessJob, also with an empty script, in
\* the end sets RENDERED_VIDEO_DATA or JOB_ERROR
C34_JobReports ==
    <>(RENDERED_VIDEO_DATA # "undefined" \/ JOB_ERROR # "undefined")

---------------------------------------------------------------------------
(* Claims about the life of a server job                                   *)

\* the changes of job.status in processJob
StatusMoves == {<<"processing", "completed">>, <<"processing", "error">>}

\* the job has its file and names it
FileRecorded(job) ==
    /\ "filename" \in DOMAIN job
    /\ job.filename \in files

\* the job has a message
MessageRecorded(job) ==
    /\ "error" \in DOMAIN job
    /\ job.error \in JobErrorMessages

\* C35: the status of a stored job changes only from processing to completed
\* or from processing to error; a completed job has its file in the storage
\* directory and its filename recorded; a failed job has an error message
C35_JobStatusMoves ==
    /\ [](\A j \in DOMAIN jobs :
              /\ jobs[j].status = "completed" => FileRecorded(jobs[j])
              /\ jobs[j].status = "error" => MessageRecorded(jobs[j]))
    /\ [][\A j \in DOMAIN jobs \cap DOMAIN jobs' :
              jobs'[j].status # jobs[j].status =>
                  <<jobs[j].status, jobs'[j].status>> \in StatusMoves]_vars

\* one job has completed and another has failed
C35_Witness ==
    /\ \E j \in DOMAIN jobs :
           jobs[j].status = "completed" /\ JobNames[j] \in files
    /\ \E j \in DOMAIN jobs :
           jobs[j].status = "error" /\ jobs[j].error = "JOB_ERROR"

\* C36: when the handler of POST /api/generate has answered, reporting
\* 'queued', the job it created is stored with status 'queued', which is what
\* a status request then observes
C36_StoredQueuedAfterResponse ==
    [][\A j \in DOMAIN jobs' \ DOMAIN jobs : jobs'[j].status = "queued"]_vars

---------------------------------------------------------------------------
(* Claims about the order in which handleGenerate processes the scenes     *)

\* the scenes with the given status
ScenesWith(status) ==
    {k \in DOMAIN processedScenes : processedScenes[k].status = status}

\* the scene holds the speech and the timings made for it: the audio buffer
\* is set, and the timings are an array the aligner answered or the array
\* the estimator computes for the text and the audio
HasAssets(k) ==
    /\ processedScenes[k].hasAudio
    /\ \/ processedScenes[k].wordTimings
              \in AlignerOutputs(processedScenes[k].duration)
       \/ processedScenes[k].wordTimings =
              generateWordTimings(script[k].voiceOverText,
                                  processedScenes[k].duration)

\* C37: at most one scene is 'generating'; the scenes before it are
\* 'completed' and hold their audio buffer and word timings, the scenes after
\* it are 'pending'; the application state is READY only when every scene is
\* 'completed', and is IDLE once an image or speech generation has failed
C37_ScenesInOrder ==
    /\ Cardinality(ScenesWith("generating")) <= 1
    /\ \A k \in ScenesWith("generating") :
           /\ \A m \in 1..(k - 1) : m \in ScenesWith("completed")
           /\ \A m \in (k + 1)..Len(processedScenes) : m \in ScenesWith("pending")
    /\ \A k \in ScenesWith("completed") :
           /\ HasAssets(k)
           /\ \A m \in 1..(k - 1) : m \in ScenesWith("completed")
    /\ \A k \in ScenesWith("pending") : ~processedScenes[k].hasAudio
    /\ appState = "READY" =>
           /\ Len(processedScenes) = Len(script)
           /\ ScenesWith("completed") = DOMAIN processedScenes
    /\ genError = "assets" => appState = "IDLE"

\* the third of four scenes is being generated
C37_Witness ==
    /\ Len(script) = 4
    /\ appState = "PROCESSING"
    /\ ScenesWith("completed") = {1, 2}
    /\ ScenesWith("generating") = {3}
    /\ ScenesWith("pending") = {4}
    /\ processedScenes[1].wordTimings # processedScenes[2].wordTimings

---------------------------------------------------------------------------
(* Claims about the lines of drawSubtitle                                  *)

\* C38: no line of the layout is empty, and line 0 begins with the first word
C38_NoEmptyLine ==
    /\ \A l \in 1..Len(lastCall.allLines) : lastCall.allLines[l] # <<>>
    /\ lastCall.allLines # <<>> => Head(Head(lastCall.allLines)) = 1

---------------------------------------------------------------------------
(* Claims about the times of the frames of exportVideo                     *)

\* C39: of two frames submitted one after the other, in one scene or across
\* a scene boundary, the later one is presented no earlier than the earlier
\* one ends, 1_000_000/30 microseconds after its timestamp
C39_FrameIntervalsDisjoint ==
    \A s \in BOOLEAN :
        \A e \in 1..(Len(shRun[s].videoLog) - 1) :
            RLe(RAdd(shRun[s].videoLog[e].timestamp, FrameDurationUs),
                shRun[s].videoLog[e + 1].timestamp)

\* C40: the time drawSubtitle is called with at frame f of a scene is f/30
\* seconds, the time from the start of the scene at which frame f is shown
C40_PlayheadIsFrameTime ==
    \A s \in BOOLEAN :
        \A e \in 1..Len(shRun[s].drawLog) :
            shRun[s].drawLog[e].subtitle =>
                shRun[s].drawLog[e].sceneTime = Rat(shRun[s].drawLog[e].frame, FPS)

====
